---- MODULE Spec2Model ----
(***************************************************************************)
(* CUPyDO FSI coupler (cupydo/FSICoupler.py): the coupling algorithms      *)
(* (Algorithm.run, the unsteady time loop, the fsiCoupling loops of the    *)
(* BGS, Aitken, IQN-ILS and thermal BGS algorithms) as a state machine.    *)
(* One process (rank) is modelled; hostsSolid says whether this rank is    *)
(* one of manager.getSolidSolverProcessors().                              *)
(* Times are integers counted in a unit that divides deltaT.               *)
(* The convergence criterion is an external collaborator: the error value  *)
(* it returns is abstracted to "LO" (below the tolerance) or "HI".         *)
(***************************************************************************)
EXTENDS Integers, Sequences, FiniteSets, TLC

\* ------------------------------------------------------------------ bounds
MaxSteps == 4        \* largest number of time steps totTime/deltaT
MaxIter == 3         \* largest nbFSIIterMax
MaxKeep == 2         \* largest nbTimeToKeep
MaxTreshold == 1     \* largest timeIterTreshold tried (besides the default -1)
DeltaT == 2          \* the time step, in time units
NbRanks == 2         \* processes that construct an interpolator
MaxNodes == 2        \* largest number of interface nodes on one side
MaxRunSteps == 2     \* largest number of time steps of a run followed on every rank
MaxSubIt == 3        \* largest number of sub-iterations of a step of the Aitken object
MaxAitkenSteps == 2  \* time steps the Aitken object is followed over
ScenarioSteps == 3   \* time steps of the IQN-ILS / Aitken comparison

VARIABLES
    conf,            \* constructor arguments and manager flags (never change)
    pc,              \* position of the process in run()
    outcome,         \* "running", "returned" (normal return) or "raised"
    time, timeIter, deltaT, writeInFSIloop,
    FSIIter, FSIConv, errValue, errValue_CHT, totNbOfFSIIt,
    nbTimeIter,      \* local of __unsteadyRun
    nbFSIIter, solidHasRun,          \* locals of fsiCoupling
    maxNbOfItReached, convergenceReachedInOneIt, V, W,
    Vk, Wk, Vk_mat, Wk_mat, nIt,     \* locals of AlgorithmIQN_ILS.fsiCoupling
    solidInterfaceResidual0,         \* sub-iteration whose residual this local holds (-1: zeros)
    solidInterfaceDisplacement_tilde1,   \* the same for the solver's displacement
    subOps,          \* calls made so far in the current sub-iteration (empty between calls)
    fluidWindow, solidWindow,        \* arguments of the last solver run() calls
    endMsgs,         \* messages printed after the loop of the last fsiCoupling
    loopExc,         \* an exception was raised inside the try block
    diagPrinted,     \* the except clause printed its diagnostic
    printedSuccess,  \* value printed as '[Successful Run FSI]' ("none" before)
    solidExitCalls, fluidExitCalls,
    stepsDone,       \* time steps completed (history of the run)
    nSub,            \* loop bodies entered in the current fsiCoupling call (0 between calls)
    kFirst,          \* sub-iteration whose residual was first verified (0: none)
    prevCall,        \* how the previous fsiCoupling call ended (t = -1: no call yet)
    stored,          \* time steps stored in V since it was last emptied, newest first
    nonRoot,         \* maxNbOfItReached, convergenceReachedInOneIt, V, W of a rank with myid # 0
    convMsgs, nonconvMsgs,           \* endMsgs seen for converged / non-converged steps
    stepOps,         \* calls made so far in the current time step of __unsteadyRun
    nbPredictions,   \* calls of solidDisplacementPredictor so far
    \* -- construction of a MatchingMeshesInterpolator, one entry per rank
    icfg,            \* the manager's data and the constructor's arguments
    ipc,             \* position of each rank in the constructor
    iProcPos,        \* position of each rank in the loop over solidInterfaceProcessors
    chtTransferMethod, heatTransferCoeff,
    fields,          \* the interface fields each rank has allocated
    operators,       \* the interface matrices each rank has allocated
    coordMsgs,       \* coordinate messages in flight: << source, destination, tag >>
    coordSent,       \* coordinate messages sent so far
    \* -- relaxation: an AlgorithmBGSAitkenRelax object, and beside it an
    \* -- AlgorithmIQN_ILS object with nbTimeToKeep = 0 fed the same residuals
    rcfg,            \* omegaMax, aitkenCrit, timeIterTreshold
    rpc,             \* position in the coupled loop
    rTimeIter, rFSIIter,
    solidInterfaceResidual,
    omega, solidInterfaceResidualkM1,    \* fields of the Aitken object
    lastDelta,       \* increment the Aitken object added to the solid displacement
    seen,            \* what the Aitken object went through (omega before the last
                     \* call and after it, the previous residual of the step, omega
                     \* at the end of the previous step)
    iqn,             \* the IQN-ILS object: omega, solidInterfaceResidualkM1,
                     \* solidInterfaceResidual0, its last increment and branch
    agree,           \* both objects have added the same increments so far
    exact,           \* no Aitken factor was clamped where IQN-ILS corrected
    \* -- the ranks of an MPI run inside one collective method
    mcfg,            \* what the method is run with, and the calls it makes on each rank
    mpos,            \* position of each rank in its sequence of MPI calls
    mchan,           \* mchan[p][q]: messages sent by p to q and not yet received
    mbar,            \* barriers each rank has entered
    mseen,           \* what each rank has received, assembled and used
    \* -- the fields of an interpolator through a transfer
    tcfg,            \* the operators of the interpolator and what the solvers give
    tfld             \* the interface fields, and what the fluid solver was given

runVars == << conf, pc, outcome, time, timeIter, deltaT, writeInFSIloop,
           FSIIter, FSIConv, errValue, errValue_CHT, totNbOfFSIIt, nbTimeIter,
           nbFSIIter, solidHasRun, maxNbOfItReached, convergenceReachedInOneIt,
           V, W, Vk, Wk, Vk_mat, Wk_mat, nIt, solidInterfaceResidual0,
           solidInterfaceDisplacement_tilde1, subOps, fluidWindow, solidWindow,
           endMsgs, loopExc, diagPrinted, printedSuccess, solidExitCalls,
           fluidExitCalls, stepsDone, nSub, kFirst, prevCall, stored, nonRoot,
           convMsgs, nonconvMsgs, stepOps, nbPredictions >>

\* the variables of the other specifications of this module
interpVars == << icfg, ipc, iProcPos, chtTransferMethod, heatTransferCoeff,
                 fields, operators, coordMsgs, coordSent >>

relaxVars == << rcfg, rpc, rTimeIter, rFSIIter, solidInterfaceResidual, omega,
                solidInterfaceResidualkM1, lastDelta, seen, iqn, agree, exact >>

mpiVars == << mcfg, mpos, mchan, mbar, mseen >>
xferVars == << tcfg, tfld >>

offRun == << interpVars, relaxVars, mpiVars, xferVars >>
notInterp == << runVars, relaxVars, mpiVars, xferVars >>
notRelax == << runVars, interpVars, mpiVars, xferVars >>
notMpi == << runVars, interpVars, relaxVars, xferVars >>
notXfer == << runVars, interpVars, relaxVars, mpiVars >>

vars == << runVars, offRun >>

\* groups of variables, for UNCHANGED
iqnLocals == << Vk, Wk, Vk_mat, Wk_mat, nIt, solidInterfaceResidual0,
               solidInterfaceDisplacement_tilde1 >>
iqnState == << maxNbOfItReached, convergenceReachedInOneIt, V, W, stored, prevCall, nonRoot >>
teardownObs == << loopExc, diagPrinted, printedSuccess, solidExitCalls, fluidExitCalls, outcome >>
clock == << time, timeIter, deltaT, writeInFSIloop, nbTimeIter, stepsDone, totNbOfFSIIt >>
critState == << FSIConv, errValue, errValue_CHT, kFirst >>
msgObs == << endMsgs, convMsgs, nonconvMsgs >>
windows == << fluidWindow, solidWindow >>
stepObs == << stepOps, nbPredictions >>

\* ------------------------------------------------------------- helpers
Min(a, b) == IF a < b THEN a ELSE b

Insert0(s, x) == <<x>> \o s                 \* list.insert(0, x)
DelLast(s) == SubSeq(s, 1, Len(s) - 1)      \* del list[-1]

RECURSIVE Flatten(_)
\* np.vstack(blocks).T : the columns of all blocks, in list order
Flatten(blocks) ==
    IF blocks = <<>> THEN <<>> ELSE Head(blocks) \o Flatten(Tail(blocks))

\* mat[:, 0:n] : the first n columns (numpy clamps the slice)
Cols(mat, n) == SubSeq(mat, 1, Min(n, Len(mat)))

\* a precedes every occurrence of b in ops
Precedes(ops, a, b) ==
    \A j \in 1..Len(ops) : ops[j] = b => \E i \in 1..(j - 1) : ops[i] = a

Has(ops, a) == \E i \in 1..Len(ops) : ops[i] = a

Algos == {"BGSStatic", "BGSAitken", "IQN_ILS", "ThermalBGS"}
Mechanical == {"BGSStatic", "BGSAitken", "IQN_ILS"}

\* Criterion.isVerified(epsilon, epsilonCHT): both errors below their tolerances.
\* The values fsiCoupling starts from stand on the side they are chosen for:
\* 1e12 and 1.0 are "HI"; 0.0 and the 1e6 given as thermal error by the
\* algorithms that compute none are "LO", as is the default epsilonCHT.
isVerified(eps, epsCHT) == eps = "LO" /\ epsCHT = "LO"

\* ------------------------------------------------- numbers of the relaxation
\* A value is (n/d) * omegaMin^e with d > 0 and e in {0, 1}: the rationals, and
\* the rational multiples of omegaMin = 1e-12, which no integer of the model
\* can hold as a fraction. Every rational of the model has numerator and
\* denominator far below 1e6, so a positive multiple of omegaMin is smaller
\* than every positive rational: the comparisons below are exact.
Abs(x) == IF x < 0 THEN -x ELSE x

RECURSIVE Gcd(_, _)
Gcd(a, b) == IF b = 0 THEN a ELSE Gcd(b, a % b)

\* the value (n/d) * omegaMin^e in lowest terms (d # 0)
Val(n, d, e) ==
    IF n = 0 THEN [n |-> 0, d |-> 1, e |-> 0]
    ELSE LET g == Gcd(Abs(n), Abs(d))
             sg == IF d < 0 THEN -1 ELSE 1
         IN [n |-> (sg * n) \div g, d |-> (sg * d) \div g, e |-> e]

One == Val(1, 1, 0)
Zero == Val(0, 1, 0)

\* self.omegaMin = 1e-12
OmegaMin == Val(1, 1, 1)

\* x < y
VLess(x, y) ==
    IF x.e = y.e THEN x.n * y.d < y.n * x.d
    ELSE IF x.e = 1
         THEN (IF y.n > 0 THEN TRUE ELSE IF y.n = 0 THEN x.n < 0 ELSE FALSE)
         ELSE (IF x.n > 0 THEN FALSE ELSE IF x.n = 0 THEN y.n > 0 ELSE TRUE)

\* x * (p/q)
VMul(x, p, q) == Val(x.n * p, x.d * q, x.e)

\* x + k for an integer k (x rational, or k = 0)
VAddInt(x, k) == IF k = 0 THEN x ELSE Val(x.n + k * x.d, x.d, 0)

\* Python's min(a, b) and max(a, b): the first argument unless the second
\* is strictly smaller (larger)
PyMin(a, b) == IF VLess(b, a) THEN b ELSE a
PyMax(a, b) == IF VLess(a, b) THEN b ELSE a

\* an interface field is a tuple of integers; FlexInterfaceData.dot gives the
\* dot products of the X, Y and Z columns, which setOmega adds up
Dot(u, v) == u[1] * v[1] + u[2] * v[2]

\* the sum of the squares of the norms of the columns
NormSq(u) == Dot(u, u)

VecSub(u, v) == << u[1] - v[1], u[2] - v[2] >>

ZeroVec == << 0, 0 >>

\* omega * field
Scaled(x, u) == << VMul(x, u[1], 1), VMul(x, u[2], 1) >>

\* the residuals the solvers may produce
Residuals == { << 1, 0 >>, << -1, 0 >>, << 2, 0 >>, << 1, 1 >>, << 0, 1 >>, << 0, 0 >> }

\* no relaxation object is followed
RelaxIdle ==
    /\ rcfg = [omegaMax |-> One, aitkenCrit |-> "max", timeIterTreshold |-> -1]
    /\ rpc = "idle" /\ rTimeIter = 0 /\ rFSIIter = 0
    /\ solidInterfaceResidual = ZeroVec
    /\ omega = One /\ solidInterfaceResidualkM1 = ZeroVec
    /\ lastDelta = << Zero, Zero >>
    /\ seen = [called |-> FALSE, omegaBefore |-> One, omegaAfter |-> One,
               prevSubRes |-> ZeroVec, omegaAtStepEnd |-> One]
    /\ iqn = [omega |-> One, solidInterfaceResidualkM1 |-> ZeroVec,
              solidInterfaceResidual0 |-> ZeroVec, lastDelta |-> << Zero, Zero >>,
              branch |-> "none"]
    /\ agree = TRUE /\ exact = TRUE

\* no MPI method is followed and no transfer either
MpiIdle ==
    /\ mcfg = [method |-> "none", calls |-> << >>]
    /\ mpos = << >> /\ mchan = << >> /\ mbar = << >> /\ mseen = << >>

XferIdle == tcfg = [mode |-> "none"] /\ tfld = << >>

\* no interpolator is under construction
InterpIdle ==
    /\ icfg = [nf |-> 0, ns |-> 0, withFsi |-> FALSE, withCht |-> FALSE,
               chtArg |-> "None", solidProcs |-> {}, fluidProcs |-> {}]
    /\ ipc = << >> /\ iProcPos = << >>
    /\ chtTransferMethod = << >> /\ heatTransferCoeff = << >>
    /\ fields = << >> /\ operators = << >>
    /\ coordMsgs = {} /\ coordSent = 0

\* the values tried for AlgorithmIQN_ILS.qrFilter: the one __init__ sets, and
\* one an assignment after construction may leave that qrSolve does not know
QrFilters == {"Haelterman", "Sherman"}

\* ---------------------------------------------------------------- Init
\* Algorithm.__init__ and the subclasses' __init__, for one choice of arguments
\* (a rank that does not host the solid solver is tried with BGSStatic only)
Init ==
    /\ InterpIdle
    /\ RelaxIdle
    /\ MpiIdle /\ XferIdle
    /\ \E a \in Algos, ct \in {"unsteady", "steady"}, cht \in BOOLEAN,
          hs \in BOOLEAN, cap \in 1..MaxIter, n \in {1, MaxSteps},
          thr \in {-1, MaxTreshold}, keep \in 0..MaxKeep, qf \in QrFilters,
          fi \in BOOLEAN :
          /\ a = "IQN_ILS" => ~cht
          /\ a = "ThermalBGS" => cht
          /\ a # "IQN_ILS" => (keep = 0 /\ qf = "Haelterman" /\ ~fi)
          /\ ct = "steady" => n = MaxSteps
          /\ ~hs => a = "BGSStatic"
          /\ conf = [algo |-> a, computationType |-> ct, withCht |-> cht,
                     hostsSolid |-> hs, nbFSIIterMax |-> cap,
                     totTime |-> n * DeltaT, timeIterTreshold |-> thr,
                     nbTimeToKeep |-> keep, qrFilter |-> qf,
                     computeTangentMatrixBasedOnFirstIt |-> fi]
    /\ pc = "run_ini"
    /\ outcome = "running"
    /\ time = 0 /\ timeIter = 0 /\ deltaT = DeltaT /\ writeInFSIloop = FALSE
    /\ FSIIter = 0 /\ FSIConv = FALSE /\ errValue = "LO" /\ errValue_CHT = "LO"
    /\ totNbOfFSIIt = 0 /\ nbTimeIter = 0
    /\ nbFSIIter = 0 /\ solidHasRun = FALSE
    /\ maxNbOfItReached = FALSE /\ convergenceReachedInOneIt = FALSE
    /\ V = <<>> /\ W = <<>>
    /\ Vk = <<>> /\ Wk = <<>> /\ Vk_mat = <<>> /\ Wk_mat = <<>> /\ nIt = 0
    /\ solidInterfaceResidual0 = -1 /\ solidInterfaceDisplacement_tilde1 = -1
    /\ subOps = <<>>
    /\ fluidWindow = <<0, 0>> /\ solidWindow = <<0, 0>>
    /\ endMsgs = <<>>
    /\ loopExc = FALSE /\ diagPrinted = FALSE /\ printedSuccess = "none"
    /\ solidExitCalls = 0 /\ fluidExitCalls = 0
    /\ stepsDone = 0 /\ nSub = 0 /\ kFirst = 0
    /\ prevCall = [t |-> -1, iter |-> 0, cap |-> 0, conv |-> FALSE] /\ stored = <<>>
    /\ nonRoot = [maxNbOfItReached |-> FALSE, convergenceReachedInOneIt |-> FALSE,
                  V |-> <<>>, W |-> <<>>]
    /\ convMsgs = {} /\ nonconvMsgs = {}
    /\ stepOps = <<>> /\ nbPredictions = 0

\* ------------------------------------------------------ Algorithm.run
\* variant: the teardown is not in a finally block, an exception skips it
OnLoopException_SkipTeardown == "exit_barrier"

\* where control goes when an exception is raised inside the try block:
\* the bare except clause prints the diagnostic, then the finally block runs
OnLoopException == "finally"

\* variant: the except clause re-raises after printing
OutcomeAfterFinally_Reraise(exc) == IF exc THEN "raised" ELSE "returned"

\* how run() ends once the finally block has completed: the except clause
\* does not re-raise, so run() returns normally whether or not exc is set
OutcomeAfterFinally(exc) == "returned"

\* printExitInfo: the value printed as '[Successful Run FSI]'
SuccessFlag(t, tot, dt) == IF t >= tot - 2 * dt THEN "True" ELSE "False"

\* variant: the -1 is forgotten
NbTimeIter_OffByOne(tot, dt) == tot \div dt

\* __unsteadyRun: nbTimeIter = int((totTime/deltaT)-1)
NbTimeIter(tot, dt) == (tot \div dt) - 1

IniRealTimeData ==
    /\ pc = "run_ini"
    /\ pc' = "run_setIC"
    /\ UNCHANGED << conf, offRun, stepObs, clock, FSIIter, critState, nbFSIIter, solidHasRun,
                    iqnState, iqnLocals, subOps, windows, msgObs, teardownObs, nSub >>

SetFSIInitialConditions ==
    /\ pc = "run_setIC"
    /\ pc' = "run_try"
    /\ UNCHANGED << conf, offRun, stepObs, clock, FSIIter, critState, nbFSIIter, solidHasRun,
                    iqnState, iqnLocals, subOps, windows, msgObs, teardownObs, nSub >>

\* an exception in iniRealTimeData or setFSIInitialConditions is raised
\* before the try statement is entered: it propagates to the caller at once
RaiseBeforeLoop ==
    /\ pc \in {"run_ini", "run_setIC"}
    /\ pc' = "done"
    /\ outcome' = "raised"
    /\ UNCHANGED << conf, offRun, stepObs, clock, FSIIter, critState, nbFSIIter, solidHasRun,
                    iqnState, iqnLocals, subOps, windows, msgObs, nSub,
                    loopExc, diagPrinted, printedSuccess, solidExitCalls, fluidExitCalls >>

\* the head of the try block
EnterTry ==
    /\ pc = "run_try"
    /\ IF conf.computationType = "unsteady"
       THEN /\ nbTimeIter' = NbTimeIter(conf.totTime, deltaT)
            /\ pc' = "loop_test"
            /\ UNCHANGED << time, timeIter, deltaT, writeInFSIloop >>
       ELSE /\ time' = conf.totTime
            /\ timeIter' = 1
            /\ deltaT' = conf.totTime
            /\ writeInFSIloop' = TRUE
            /\ pc' = "fsi_enter"
            /\ UNCHANGED nbTimeIter
    /\ UNCHANGED << conf, offRun, stepObs, stepsDone, totNbOfFSIIt, FSIIter, critState, nbFSIIter,
                    solidHasRun, iqnState, iqnLocals, subOps, windows, msgObs,
                    teardownObs, nSub >>

\* while self.timeIter <= nbTimeIter
TimeLoopTest ==
    /\ pc = "loop_test"
    /\ pc' = IF timeIter <= nbTimeIter THEN "preprocess" ELSE "finally"
    /\ UNCHANGED << conf, offRun, stepObs, clock, FSIIter, critState, nbFSIIter, solidHasRun,
                    iqnState, iqnLocals, subOps, windows, msgObs, teardownObs, nSub >>

\* FluidSolver.preprocessTimeIter, then SolidSolver.preprocessTimeIter on the
\* ranks that host the solid solver
PreprocessOps(hs) ==
    << "FluidSolver.preprocessTimeIter" >>
    \o (IF hs THEN << "SolidSolver.preprocessTimeIter" >> ELSE <<>>)

PreprocessTimeIter ==
    /\ pc = "preprocess"
    /\ stepOps' = PreprocessOps(conf.hostsSolid)
    /\ pc' = "fsi_enter"
    /\ UNCHANGED << conf, offRun, nbPredictions, clock, FSIIter, critState, nbFSIIter, solidHasRun,
                    iqnState, iqnLocals, subOps, windows, msgObs, teardownObs, nSub >>

\* the calls of a time step between fsiCoupling and the predictor: update,
\* save, history write, remeshing
PostCouplingOps(hs) ==
    (IF hs THEN << "SolidSolver.update" >> ELSE <<>>)
    \o << "FluidSolver.update", "FluidSolver.save" >>
    \o (IF hs THEN << "SolidSolver.save" >> ELSE <<>>)
    \o << "writeRealTimeData" >>
    \o (IF hs THEN << "SolidSolver.remeshing" >> ELSE <<>>)
    \o << "FluidSolver.remeshing" >>

\* after fsiCoupling: barrier, iteration count, update, save, history, remeshing
PostCoupling ==
    /\ pc = "post_coupling"
    /\ stepOps' = stepOps \o PostCouplingOps(conf.hostsSolid)
    /\ totNbOfFSIIt' = IF timeIter > 0 THEN totNbOfFSIIt + FSIIter ELSE totNbOfFSIIt
    /\ pc' = "advance"
    /\ UNCHANGED << conf, offRun, nbPredictions, time, timeIter, deltaT, writeInFSIloop, nbTimeIter, stepsDone,
                    FSIIter, critState, nbFSIIter, solidHasRun,
                    iqnState, iqnLocals, subOps, windows, msgObs, teardownObs, nSub >>

\* variant: the predictor waits for the first coupled step
PredictorDue_Coupled(t, thr) == t > thr

\* whether solidDisplacementPredictor() is called at the end of time step t
PredictorDue(t, thr) == t >= thr

\* the displacement predictor (if timeIter >= timeIterTreshold), then
\* timeIter += 1 and time += deltaT
PredictorAndAdvance ==
    /\ pc = "advance"
    /\ IF PredictorDue(timeIter, conf.timeIterTreshold)
       THEN /\ stepOps' = stepOps \o << "solidDisplacementPredictor", "advance" >>
            /\ nbPredictions' = nbPredictions + 1
       ELSE /\ stepOps' = Append(stepOps, "advance")
            /\ UNCHANGED nbPredictions
    /\ timeIter' = timeIter + 1
    /\ time' = time + deltaT
    /\ stepsDone' = stepsDone + 1
    /\ pc' = "loop_test"
    /\ UNCHANGED << conf, offRun, deltaT, writeInFSIloop, nbTimeIter, totNbOfFSIIt,
                    FSIIter, critState, nbFSIIter, solidHasRun,
                    iqnState, iqnLocals, subOps, windows, msgObs, teardownObs, nSub >>

\* the positions of the try block at which a solver is called (preprocessTimeIter,
\* run, update/save/remeshing, the velocities of the predictor) or the
\* relaxation / least-squares correction is computed
RaisePcs == {"preprocess", "fluid_run", "solid_run", "relax", "post_coupling", "advance"}

\* one of these calls raises
RaiseInLoop ==
    /\ pc \in RaisePcs
    /\ loopExc' = TRUE
    /\ diagPrinted' = TRUE
    /\ pc' = OnLoopException
    /\ UNCHANGED << conf, offRun, stepObs, clock, FSIIter, critState, nbFSIIter, solidHasRun,
                    iqnState, iqnLocals, subOps, windows, msgObs, nSub,
                    outcome, printedSuccess, solidExitCalls, fluidExitCalls >>

\* the finally block up to printExitInfo()
PrintExitInfo ==
    /\ pc = "finally"
    /\ printedSuccess' = SuccessFlag(time, conf.totTime, deltaT)
    /\ pc' = "solid_exit"
    /\ UNCHANGED << conf, offRun, stepObs, clock, FSIIter, critState, nbFSIIter, solidHasRun,
                    iqnState, iqnLocals, subOps, windows, msgObs, nSub,
                    outcome, loopExc, diagPrinted, solidExitCalls, fluidExitCalls >>

\* if self.myid in self.manager.getSolidSolverProcessors(): self.SolidSolver.exit()
SolidExit ==
    /\ pc = "solid_exit"
    /\ solidExitCalls' = IF conf.hostsSolid THEN solidExitCalls + 1 ELSE solidExitCalls
    /\ pc' = "fluid_exit"
    /\ UNCHANGED << conf, offRun, stepObs, clock, FSIIter, critState, nbFSIIter, solidHasRun,
                    iqnState, iqnLocals, subOps, windows, msgObs, nSub,
                    outcome, loopExc, diagPrinted, printedSuccess, fluidExitCalls >>

\* self.FluidSolver.exit()
FluidExit ==
    /\ pc = "fluid_exit"
    /\ fluidExitCalls' = fluidExitCalls + 1
    /\ pc' = "exit_barrier"
    /\ UNCHANGED << conf, offRun, stepObs, clock, FSIIter, critState, nbFSIIter, solidHasRun,
                    iqnState, iqnLocals, subOps, windows, msgObs, nSub,
                    outcome, loopExc, diagPrinted, printedSuccess, solidExitCalls >>

\* the last barrier of the finally block, and the end of run()
ExitBarrier ==
    /\ pc = "exit_barrier"
    /\ pc' = "done"
    /\ outcome' = OutcomeAfterFinally(loopExc)
    /\ UNCHANGED << conf, offRun, stepObs, clock, FSIIter, critState, nbFSIIter, solidHasRun,
                    iqnState, iqnLocals, subOps, windows, msgObs, nSub,
                    loopExc, diagPrinted, printedSuccess, solidExitCalls, fluidExitCalls >>

\* a call of the finally block raises: nothing catches it, the rest of the
\* block is skipped and the exception propagates to the caller
RaiseInTeardown ==
    /\ pc \in {"finally", "solid_exit", "fluid_exit"}
    /\ pc = "solid_exit" => conf.hostsSolid
    /\ pc' = "done"
    /\ outcome' = "raised"
    /\ UNCHANGED << conf, offRun, stepObs, clock, FSIIter, critState, nbFSIIter, solidHasRun,
                    iqnState, iqnLocals, subOps, windows, msgObs, nSub,
                    loopExc, diagPrinted, printedSuccess, solidExitCalls, fluidExitCalls >>

\* ------------------------------------------------------- fsiCoupling
BGSFamily == {"BGSStatic", "BGSAitken", "ThermalBGS"}

\* the column of the np.zeros((nDim*ns,1)) matrices Vk_mat, Wk_mat start as
ZeroCol == << -1, 0, -1 >>

\* the column inserted into Vk / Wk in sub-iteration k of time step t: the
\* value of sub-iteration k minus the value the reference field holds, which
\* is that of sub-iteration ref
Column(t, k, ref) == << t, k, ref >>

\* copy.deepcopy(self.V): the matrices of the stored time steps
DeepCopy(L) == [i \in 1..Len(L) |-> L[i].m]

\* nbFSIIter: the cap of the loop of this call
NbFSIIter(t, thr, cap) == IF t > thr THEN cap ELSE 1

\* variant: the loop runs to the cap whatever the criterion says
LoopCond_NoCriterion(iter, nb, eps, epsCHT) == iter < nb

\* the condition of the while loop of fsiCoupling
LoopCond(iter, nb, eps, epsCHT) == iter < nb /\ ~isVerified(eps, epsCHT)

\* variant: the solidHasRun guard is dropped
SolidToFluidThermalDue_Always(a, cht, hasRun) ==
    CASE a \in {"BGSStatic", "BGSAitken"} -> cht
      [] a = "ThermalBGS" -> TRUE
      [] OTHER -> FALSE

\* whether solidToFluidThermalTransfer() is called in this sub-iteration
SolidToFluidThermalDue(a, cht, hasRun) ==
    CASE a \in {"BGSStatic", "BGSAitken"} -> cht /\ hasRun
      [] a = "ThermalBGS" -> hasRun
      [] OTHER -> FALSE

\* whether fluidToSolidThermalTransfer() is called before the solid run
FluidToSolidThermalDue(a, cht) ==
    CASE a \in {"BGSStatic", "BGSAitken"} -> cht
      [] a = "ThermalBGS" -> TRUE
      [] OTHER -> FALSE

\* variant: the step whose number equals the threshold is coupled too
Coupled_FromTreshold(t, thr) == t >= thr

\* whether the part of the loop body that runs the solid solver is executed
Coupled(t, thr) == t > thr

\* the prologue of fsiCoupling, up to the while loop
FsiCouplingEnter ==
    /\ pc = "fsi_enter"
    /\ nbFSIIter' = NbFSIIter(timeIter, conf.timeIterTreshold, conf.nbFSIIterMax)
    /\ FSIIter' = 0
    /\ FSIConv' = FALSE
    /\ errValue' = IF conf.algo = "ThermalBGS" THEN "LO" ELSE "HI"
    /\ errValue_CHT' = IF conf.algo = "ThermalBGS" THEN "HI" ELSE "LO"
    /\ solidHasRun' = FALSE
    /\ IF conf.algo = "IQN_ILS"
       THEN /\ Vk_mat' = << ZeroCol >>
            /\ Wk_mat' = << ZeroCol >>
            /\ IF conf.nbTimeToKeep # 0 /\ timeIter > 1
               THEN Vk' = DeepCopy(V) /\ Wk' = DeepCopy(W)
               ELSE Vk' = <<>> /\ Wk' = <<>>
            /\ nIt' = 0
            /\ solidInterfaceResidual0' = -1
            /\ solidInterfaceDisplacement_tilde1' = -1
       ELSE UNCHANGED iqnLocals
    /\ nSub' = 0
    /\ kFirst' = 0
    /\ subOps' = <<>>
    /\ pc' = "fsi_test"
    /\ UNCHANGED << conf, offRun, stepObs, clock, iqnState, windows, msgObs, teardownObs >>

\* the test of the while loop
FsiLoopTest ==
    /\ pc = "fsi_test"
    /\ IF LoopCond(FSIIter, nbFSIIter, errValue, errValue_CHT)
       THEN /\ nSub' = nSub + 1
            /\ subOps' = <<>>
            /\ pc' = IF conf.algo \in Mechanical THEN "s2f_mecha"
                     ELSE IF SolidToFluidThermalDue(conf.algo, conf.withCht, solidHasRun)
                          THEN "s2f_thermal" ELSE "fluid_run"
       ELSE /\ pc' = "fsi_end"
            /\ UNCHANGED << nSub, subOps >>
    /\ UNCHANGED << conf, offRun, stepObs, clock, FSIIter, critState, nbFSIIter, solidHasRun,
                    iqnState, iqnLocals, windows, msgObs, teardownObs >>

\* variant: the displacement is not pushed before the fluid run
SolidToFluidMechaTransfer_NoPush ==
    /\ pc = "s2f_mecha"
    /\ pc' = "mesh_update"
    /\ UNCHANGED << conf, offRun, stepObs, clock, FSIIter, critState, nbFSIIter, solidHasRun,
                    iqnState, iqnLocals, windows, msgObs, teardownObs, nSub, subOps >>

SolidToFluidMechaTransfer ==
    /\ pc = "s2f_mecha"
    /\ subOps' = subOps \o << "interpolateSolidDisplacementOnFluidMesh",
                              "setDisplacementToFluidSolver" >>
    /\ pc' = "mesh_update"
    /\ UNCHANGED << conf, offRun, stepObs, clock, FSIIter, critState, nbFSIIter, solidHasRun,
                    iqnState, iqnLocals, windows, msgObs, teardownObs, nSub >>

MeshUpdate ==
    /\ pc = "mesh_update"
    /\ subOps' = Append(subOps, "FluidSolver.meshUpdate")
    /\ pc' = IF SolidToFluidThermalDue(conf.algo, conf.withCht, solidHasRun)
             THEN "s2f_thermal" ELSE "fluid_run"
    /\ UNCHANGED << conf, offRun, stepObs, clock, FSIIter, critState, nbFSIIter, solidHasRun,
                    iqnState, iqnLocals, windows, msgObs, teardownObs, nSub >>

SolidToFluidThermalTransfer ==
    /\ pc = "s2f_thermal"
    /\ subOps' = Append(subOps, "solidToFluidThermalTransfer")
    /\ pc' = "fluid_run"
    /\ UNCHANGED << conf, offRun, stepObs, clock, FSIIter, critState, nbFSIIter, solidHasRun,
                    iqnState, iqnLocals, windows, msgObs, teardownObs, nSub >>

\* self.FluidSolver.run(self.time-self.deltaT, self.time)
FluidRun ==
    /\ pc = "fluid_run"
    /\ subOps' = Append(subOps, "FluidSolver.run")
    /\ fluidWindow' = << time - deltaT, time >>
    /\ pc' = IF Coupled(timeIter, conf.timeIterTreshold)
             THEN (IF conf.algo \in Mechanical THEN "f2s_mecha" ELSE "f2s_thermal")
             ELSE "sub_end"
    /\ UNCHANGED << conf, offRun, stepObs, clock, FSIIter, critState, nbFSIIter, solidHasRun,
                    iqnState, iqnLocals, solidWindow, msgObs, teardownObs, nSub >>

FluidToSolidMechaTransfer ==
    /\ pc = "f2s_mecha"
    /\ subOps' = subOps \o << "getLoadsFromFluidSolver",
                              "interpolateFluidLoadsOnSolidMesh",
                              "setLoadsToSolidSolver" >>
    /\ pc' = IF FluidToSolidThermalDue(conf.algo, conf.withCht)
             THEN "f2s_thermal" ELSE "solid_run"
    /\ UNCHANGED << conf, offRun, stepObs, clock, FSIIter, critState, nbFSIIter, solidHasRun,
                    iqnState, iqnLocals, windows, msgObs, teardownObs, nSub >>

FluidToSolidThermalTransfer ==
    /\ pc = "f2s_thermal"
    /\ subOps' = Append(subOps, "fluidToSolidThermalTransfer")
    /\ pc' = "solid_run"
    /\ UNCHANGED << conf, offRun, stepObs, clock, FSIIter, critState, nbFSIIter, solidHasRun,
                    iqnState, iqnLocals, windows, msgObs, teardownObs, nSub >>

\* if myid in getSolidSolverProcessors(): SolidSolver.run(time-deltaT, time)
SolidRun ==
    /\ pc = "solid_run"
    /\ IF conf.hostsSolid
       THEN /\ subOps' = Append(subOps, "SolidSolver.run")
            /\ solidWindow' = << time - deltaT, time >>
       ELSE UNCHANGED << subOps, solidWindow >>
    /\ solidHasRun' = (IF conf.algo \in BGSFamily THEN TRUE ELSE solidHasRun)
    /\ pc' = "residual"
    /\ UNCHANGED << conf, offRun, stepObs, clock, FSIIter, critState, nbFSIIter,
                    iqnState, iqnLocals, fluidWindow, msgObs, teardownObs, nSub >>

\* the residuals, the error values returned by the criterion, and FSIConv
ComputeResidual ==
    /\ pc = "residual"
    /\ \E e \in {"LO", "HI"}, eC \in {"LO", "HI"} :
          /\ errValue' = IF conf.algo \in Mechanical THEN e ELSE errValue
          /\ errValue_CHT' = IF FluidToSolidThermalDue(conf.algo, conf.withCht)
                             THEN eC ELSE errValue_CHT
    /\ FSIConv' = IF conf.algo = "IQN_ILS" THEN isVerified(errValue', "LO")
                  ELSE isVerified(errValue', errValue_CHT')
    /\ kFirst' = IF kFirst = 0 /\ FSIConv' THEN nSub ELSE kFirst
    /\ subOps' = subOps \o
          (IF conf.algo \in Mechanical THEN << "computeSolidInterfaceResidual" >> ELSE <<>>)
          \o (IF FluidToSolidThermalDue(conf.algo, conf.withCht)
              THEN << "computeSolidInterfaceResidual_CHT" >> ELSE <<>>)
    /\ pc' = "relax"
    /\ UNCHANGED << conf, offRun, stepObs, clock, FSIIter, nbFSIIter, solidHasRun,
                    iqnState, iqnLocals, windows, msgObs, teardownObs, nSub >>

\* variant: the maxNbOfItReached flag is not consulted
RelaxBranch_NoCapFlag(iter, keep, maxReached, oneIt, t) ==
    \/ /\ iter = 0
       /\ \/ keep = 0
          \/ keep # 0 /\ (oneIt \/ t = 1)
    \/ t < 1

\* variant: the step timeIter = 0 is not set apart
RelaxBranch_NoStepZero(iter, keep, maxReached, oneIt, t) ==
    /\ iter = 0
    /\ \/ keep = 0
       \/ keep # 0 /\ (maxReached \/ oneIt \/ t = 1)

\* AlgorithmIQN_ILS: the test that selects relaxation instead of the
\* quasi-Newton correction
RelaxBranch(iter, keep, maxReached, oneIt, t) ==
    \/ /\ iter = 0
       /\ \/ keep = 0
          \/ keep # 0 /\ (maxReached \/ oneIt \/ t = 1)
    \/ t < 1

TakesRelaxation ==
    \/ conf.algo \in BGSFamily
    \/ RelaxBranch(FSIIter, conf.nbTimeToKeep, maxNbOfItReached,
                   convergenceReachedInOneIt, timeIter)

\* relaxSolidPosition() and relaxCHT()
Relax ==
    /\ pc = "relax"
    /\ TakesRelaxation
    /\ subOps' = subOps \o
          (IF conf.algo \in Mechanical THEN << "relaxSolidPosition" >> ELSE <<>>)
          \o (IF FluidToSolidThermalDue(conf.algo, conf.withCht)
              THEN << "relaxCHT" >> ELSE <<>>)
    /\ pc' = "sub_end"
    /\ UNCHANGED << conf, offRun, stepObs, clock, FSIIter, critState, nbFSIIter, solidHasRun,
                    iqnState, iqnLocals, windows, msgObs, teardownObs, nSub >>

\* variant: qrSolve takes any filter name
QrFilterKnown_Any(f) == TRUE

\* qrSolve: the filters it has a branch for; any other raises NameError
QrFilterKnown(f) == f \in {"Degroote1", "Degroote2", "Haelterman"}

\* AlgorithmIQN_ILS: the quasi-Newton branch (rank 0); "iqnCorrection" records
\* that the branch was entered. np.vstack raises ValueError on an empty list;
\* qrSolve (useQR is True) then raises NameError for an unknown filter.
IqnCorrection ==
    /\ pc = "relax"
    /\ ~TakesRelaxation
    /\ LET delta_res == Column(timeIter, FSIIter, solidInterfaceResidual0)
           delta_d == Column(timeIter, FSIIter, solidInterfaceDisplacement_tilde1)
           newVk == IF FSIIter > 0 THEN Insert0(Vk, << delta_res >>) ELSE Vk
           newWk == IF FSIIter > 0 THEN Insert0(Wk, << delta_d >>) ELSE Wk
       IN /\ Vk' = newVk
          /\ Wk' = newWk
          /\ nIt' = IF FSIIter > 0 THEN nIt + 1 ELSE nIt
          /\ IF newVk = <<>> \/ newWk = <<>>
             THEN /\ subOps' = subOps \o << "iqnCorrection", "ValueError" >>
                  /\ loopExc' = TRUE
                  /\ diagPrinted' = TRUE
                  /\ pc' = OnLoopException
                  /\ UNCHANGED << Vk_mat, Wk_mat >>
             ELSE /\ Vk_mat' = Flatten(newVk)
                  /\ Wk_mat' = Flatten(newWk)
                  /\ IF QrFilterKnown(conf.qrFilter)
                     THEN /\ subOps' = Append(subOps, "iqnCorrection")
                          /\ pc' = "sub_end"
                          /\ UNCHANGED << loopExc, diagPrinted >>
                     ELSE /\ subOps' = subOps \o << "iqnCorrection", "NameError" >>
                          /\ loopExc' = TRUE
                          /\ diagPrinted' = TRUE
                          /\ pc' = OnLoopException
    /\ UNCHANGED << conf, offRun, stepObs, clock, FSIIter, critState, nbFSIIter, solidHasRun,
                    iqnState, windows, msgObs, nSub,
                    solidInterfaceResidual0, solidInterfaceDisplacement_tilde1,
                    outcome, printedSuccess, solidExitCalls, fluidExitCalls >>

\* variant: the time is left alone in a steady computation too
TimeAfterSubIter_Fixed(a, ct, t, dt) == t

\* the time at the end of a sub-iteration: the BGS loops add deltaT to it
\* when the computation is not unsteady; the IQN-ILS loop never does
TimeAfterSubIter(a, ct, t, dt) ==
    IF a \in BGSFamily /\ ct # "unsteady" THEN t + dt ELSE t

\* variant: the reference fields are overwritten in every sub-iteration
ReferenceAfter_EveryIt(firstIt, iter, held) == iter

\* AlgorithmIQN_ILS: res.copy(solidInterfaceResidual0) and
\* solidInterfaceDisplacement_tilde.copy(solidInterfaceDisplacement_tilde1) at
\* the end of the coupled part of sub-iteration iter: the sub-iteration whose
\* values the reference field holds afterwards
ReferenceAfter(firstIt, iter, held) ==
    IF firstIt THEN (IF iter = 0 THEN iter ELSE held) ELSE iter

\* the end of the loop body: the copies of AlgorithmIQN_ILS, history write,
\* FSIIter += 1, bgsUpdate
SubIterEnd ==
    /\ pc = "sub_end"
    /\ IF conf.algo = "IQN_ILS" /\ Coupled(timeIter, conf.timeIterTreshold)
       THEN /\ solidInterfaceResidual0' =
                  ReferenceAfter(conf.computeTangentMatrixBasedOnFirstIt, FSIIter,
                                 solidInterfaceResidual0)
            /\ solidInterfaceDisplacement_tilde1' =
                  ReferenceAfter(conf.computeTangentMatrixBasedOnFirstIt, FSIIter,
                                 solidInterfaceDisplacement_tilde1)
       ELSE UNCHANGED << solidInterfaceResidual0, solidInterfaceDisplacement_tilde1 >>
    /\ FSIIter' = FSIIter + 1
    /\ time' = TimeAfterSubIter(conf.algo, conf.computationType, time, deltaT)
    /\ subOps' = subOps
          \o (IF writeInFSIloop THEN << "writeRealTimeData" >> ELSE <<>>)
          \o (IF conf.algo \in BGSFamily /\ conf.hostsSolid
              THEN << "SolidSolver.bgsUpdate" >> ELSE <<>>)
          \o (IF conf.algo \in BGSFamily THEN << "FluidSolver.bgsUpdate" >> ELSE <<>>)
    /\ pc' = "fsi_test"
    /\ UNCHANGED << conf, offRun, stepObs, timeIter, deltaT, writeInFSIloop, nbTimeIter, stepsDone,
                    totNbOfFSIIt, critState, nbFSIIter, solidHasRun,
                    iqnState, Vk, Wk, Vk_mat, Wk_mat, nIt, windows, msgObs, teardownObs, nSub >>

\* variant: the deletion starts one entry too late
PruneHistory_OffByOne(L, t, keep) ==
    IF t > keep /\ Len(L) > keep + 1 THEN DelLast(L) ELSE L

\* AlgorithmIQN_ILS: the deletion of the oldest stored time step
PruneHistory(L, t, keep) ==
    IF t > keep /\ Len(L) > keep THEN DelLast(L) ELSE L

\* the message that closes fsiCoupling
ClosingMsg(a, t, thr) ==
    IF t > thr
    THEN << (IF a = "IQN_ILS" THEN "IQN-ILS is converged" ELSE "BGS is converged") >>
    ELSE <<>>

\* AlgorithmIQN_ILS: whether the end of the call touches the stored history
UpdatesHistory(keep, t) == keep # 0 /\ t >= 1

\* variant: the length of the stored history is not looked at
ConvergedInOneIt_AnyHistory(iter, conv, L) == iter = 1 /\ conv

\* AlgorithmIQN_ILS: the step converged at once with nothing stored
ConvergedInOneIt(iter, conv, L) == iter = 1 /\ conv /\ Len(L) = 0

\* AlgorithmIQN_ILS: the step reached the cap without converging
CapReached(iter, nb, conv) == iter >= nb /\ ~conv

\* AlgorithmIQN_ILS: the update of the flags and of V and W that follows the
\* while loop, on a rank whose fields are h; vBlock and wBlock are the rank's
\* Vk_mat[:,0:nIt].T and Wk_mat[:,0:nIt].T
HistoryUpdate(h, iter, nb, conv, t, keep, vBlock, wBlock) ==
    IF ~UpdatesHistory(keep, t) THEN h
    ELSE IF ConvergedInOneIt(iter, conv, h.V)
    THEN [h EXCEPT !.convergenceReachedInOneIt = TRUE]
    ELSE IF CapReached(iter, nb, conv)
    THEN [maxNbOfItReached |-> TRUE, convergenceReachedInOneIt |-> FALSE,
          V |-> <<>>, W |-> <<>>]
    ELSE [maxNbOfItReached |-> FALSE, convergenceReachedInOneIt |-> FALSE,
          V |-> PruneHistory(Insert0(h.V, vBlock), t, keep),
          W |-> PruneHistory(Insert0(h.W, wBlock), t, keep)]

\* what follows the while loop of fsiCoupling; in a steady run also the
\* end of the try block (totNbOfFSIIt = FSIIter)
FsiCouplingEnd ==
    /\ pc = "fsi_end"
    /\ LET hist == conf.algo = "IQN_ILS" /\ UpdatesHistory(conf.nbTimeToKeep, timeIter)
           oneIt == ConvergedInOneIt(FSIIter, FSIConv, V)
           capped == CapReached(FSIIter, nbFSIIter, FSIConv)
           msgs == (IF ~hist THEN <<>>
                    ELSE IF oneIt THEN << "WARNING: convergence reached in one iteration" >>
                    ELSE IF capped THEN << "WARNING: reached max number of iterations" >>
                    ELSE << "Updating V and W matrices" >>)
                   \o ClosingMsg(conf.algo, timeIter, conf.timeIterTreshold)
       IN /\ IF ~hist
             THEN UNCHANGED << maxNbOfItReached, convergenceReachedInOneIt, V, W, stored >>
             ELSE IF oneIt
             THEN /\ convergenceReachedInOneIt' = TRUE
                  /\ UNCHANGED << maxNbOfItReached, V, W, stored >>
             ELSE /\ convergenceReachedInOneIt' = FALSE
                  /\ IF capped
                     THEN /\ maxNbOfItReached' = TRUE
                          /\ V' = <<>>
                          /\ W' = <<>>
                          /\ stored' = <<>>
                     ELSE /\ maxNbOfItReached' = FALSE
                          /\ V' = PruneHistory(
                                     Insert0(V, [t |-> timeIter, m |-> Cols(Vk_mat, nIt)]),
                                     timeIter, conf.nbTimeToKeep)
                          /\ W' = PruneHistory(
                                     Insert0(W, [t |-> timeIter, m |-> Cols(Wk_mat, nIt)]),
                                     timeIter, conf.nbTimeToKeep)
                          /\ stored' = Insert0(stored, timeIter)
          /\ endMsgs' = msgs
          /\ convMsgs' = IF Coupled(timeIter, conf.timeIterTreshold) /\ FSIConv
                         THEN convMsgs \cup {msgs} ELSE convMsgs
          /\ nonconvMsgs' = IF Coupled(timeIter, conf.timeIterTreshold) /\ ~FSIConv
                            THEN nonconvMsgs \cup {msgs} ELSE nonconvMsgs
    /\ prevCall' = [t |-> timeIter, iter |-> FSIIter, cap |-> nbFSIIter, conv |-> FSIConv]
    /\ nonRoot' = IF conf.algo = "IQN_ILS"
                  THEN HistoryUpdate(nonRoot, FSIIter, nbFSIIter, FSIConv, timeIter,
                                     conf.nbTimeToKeep,
                                     [t |-> timeIter, m |-> Cols(<< ZeroCol >>, 0)],
                                     [t |-> timeIter, m |-> Cols(<< ZeroCol >>, 0)])
                  ELSE nonRoot
    /\ IF conf.computationType = "unsteady"
       THEN /\ pc' = "post_coupling"
            /\ UNCHANGED totNbOfFSIIt
       ELSE /\ pc' = "finally"
            /\ totNbOfFSIIt' = FSIIter
    /\ subOps' = <<>>
    /\ nSub' = 0
    /\ stepOps' = IF conf.computationType = "unsteady"
                  THEN Append(stepOps, "fsiCoupling") ELSE stepOps
    /\ UNCHANGED << conf, offRun, nbPredictions, time, timeIter, deltaT, writeInFSIloop, nbTimeIter, stepsDone,
                    FSIIter, critState, nbFSIIter, solidHasRun, iqnLocals,
                    windows, teardownObs >>

\* --------------------------------------------------------------- Next
Next ==
    \/ IniRealTimeData
    \/ SetFSIInitialConditions
    \/ RaiseBeforeLoop
    \/ EnterTry
    \/ TimeLoopTest
    \/ PreprocessTimeIter
    \/ FsiCouplingEnter
    \/ FsiLoopTest
    \/ SolidToFluidMechaTransfer
    \/ MeshUpdate
    \/ SolidToFluidThermalTransfer
    \/ FluidRun
    \/ FluidToSolidMechaTransfer
    \/ FluidToSolidThermalTransfer
    \/ SolidRun
    \/ ComputeResidual
    \/ Relax
    \/ IqnCorrection
    \/ SubIterEnd
    \/ FsiCouplingEnd
    \/ PostCoupling
    \/ PredictorAndAdvance
    \/ RaiseInLoop
    \/ PrintExitInfo
    \/ SolidExit
    \/ FluidExit
    \/ ExitBarrier
    \/ RaiseInTeardown

Spec == Init /\ [][Next]_vars

\* ------------------------------------ MatchingMeshesInterpolator.__init__
\* The constructor runs on every rank of the communicator; nf and ns are the
\* manager's global node counts, the same on every rank. MPI Send is taken
\* to complete once the message is handed over (messages wait in coordMsgs).
Ranks == 0..(NbRanks - 1)

ChtMethods == {"TFFB", "FFTB", "hFTB", "hFFB"}

RECURSIVE SeqOf(_)
\* the elements of a set of ranks in increasing order
SeqOf(S) ==
    IF S = {} THEN <<>>
    ELSE LET m == CHOOSE x \in S : \A y \in S : x <= y
         IN <<m>> \o SeqOf(S \ {m})

\* the constructor is called on every rank with the same arguments
InterpInit ==
    /\ \E nf \in {1, MaxNodes}, ns \in {1, MaxNodes}, fsi \in BOOLEAN, cht \in BOOLEAN,
          arg \in ChtMethods \cup {"None", "other"},
          sp \in {{0}, {NbRanks - 1}, Ranks}, fp \in {{0}, {NbRanks - 1}, Ranks} :
          /\ fsi \/ cht
          /\ icfg = [nf |-> nf, ns |-> ns, withFsi |-> fsi, withCht |-> cht,
                     chtArg |-> arg, solidProcs |-> sp, fluidProcs |-> fp]
    /\ ipc = [r \in Ranks |-> "base_init"]
    /\ iProcPos = [r \in Ranks |-> 1]
    /\ chtTransferMethod = [r \in Ranks |-> "unset"]
    /\ heatTransferCoeff = [r \in Ranks |-> "unset"]
    /\ fields = [r \in Ranks |-> {}]
    /\ operators = [r \in Ranks |-> {}]
    /\ coordMsgs = {} /\ coordSent = 0

\* variant: the argument is kept as given
ChtMethodUsed_AsGiven(cht, arg) == IF cht THEN arg ELSE "None"

\* InterfaceInterpolator.__init__: the value self.chtTransferMethod is given
ChtMethodUsed(cht, arg) ==
    IF cht THEN (IF arg \notin ChtMethods THEN "TFFB" ELSE arg) ELSE "None"

\* InterfaceInterpolator.__init__: self.heatTransferCoeff
HeatCoeffUsed(method) == IF method \in {"hFTB", "hFFB"} THEN "given" ELSE "None"

\* InterfaceInterpolator.__init__ (all the interface fields are set to None)
InterfaceInterpolatorInit(r) ==
    /\ ipc[r] = "base_init"
    /\ chtTransferMethod' =
          [chtTransferMethod EXCEPT ![r] = ChtMethodUsed(icfg.withCht, icfg.chtArg)]
    /\ heatTransferCoeff' =
          [heatTransferCoeff EXCEPT ![r] = HeatCoeffUsed(chtTransferMethod'[r])]
    /\ fields' = [fields EXCEPT ![r] = {}]
    /\ ipc' = [ipc EXCEPT ![r] = "matching_check"]
    /\ UNCHANGED << notInterp, icfg, iProcPos, operators, coordMsgs, coordSent >>

\* variant: only a fluid side larger than the solid side is refused
NodeCountsDiffer_FluidLarger(nf, ns) == nf > ns

\* MatchingMeshesInterpolator.__init__: if self.nf != self.ns
NodeCountsDiffer(nf, ns) == nf # ns

\* the test of the node counts, raise Exception(...) or matching_initSearch
MatchingCheck(r) ==
    /\ ipc[r] = "matching_check"
    /\ ipc' = [ipc EXCEPT ![r] = IF NodeCountsDiffer(icfg.nf, icfg.ns)
                                 THEN "raised" ELSE "gen_data"]
    /\ UNCHANGED << notInterp, icfg, iProcPos, chtTransferMethod, heatTransferCoeff,
                    fields, operators, coordMsgs, coordSent >>

\* the FlexInterfaceData objects generateInterfaceData creates
FieldsFor(fsi, cht, method) ==
    (IF fsi THEN {"solidInterfaceDisplacement", "fluidInterfaceDisplacement",
                  "solidInterfaceLoads", "fluidInterfaceLoads"} ELSE {})
    \cup
    (IF ~cht THEN {}
     ELSE CASE method = "TFFB" ->
                 {"solidInterfaceTemperature", "fluidInterfaceTemperature",
                  "solidInterfaceHeatFlux", "fluidInterfaceHeatFlux"}
            [] method = "FFTB" ->
                 {"solidInterfaceTemperature", "fluidInterfaceTemperature",
                  "solidInterfaceHeatFlux", "fluidInterfaceHeatFlux",
                  "fluidInterfaceNormalHeatFlux", "solidInterfaceNormalHeatFlux"}
            [] method = "hFTB" ->
                 {"fluidInterfaceRobinTemperature", "solidInterfaceRobinTemperature",
                  "solidInterfaceTemperature", "fluidInterfaceTemperature"}
            [] method = "hFFB" ->
                 {"fluidInterfaceRobinTemperature", "solidInterfaceRobinTemperature",
                  "solidInterfaceHeatFlux", "fluidInterfaceHeatFlux"}
            [] OTHER -> {})

\* MatchingMeshesInterpolator.generateInterfaceData: the fields, then H and H_T
GenerateInterfaceData(r) ==
    /\ ipc[r] = "gen_data"
    /\ fields' = [fields EXCEPT ![r] =
                     FieldsFor(icfg.withFsi, icfg.withCht, chtTransferMethod[r])]
    /\ operators' = [operators EXCEPT ![r] = {"H", "H_T"}]
    /\ ipc' = [ipc EXCEPT ![r] = "map_send"]
    /\ UNCHANGED << notInterp, icfg, iProcPos, chtTransferMethod, heatTransferCoeff,
                    coordMsgs, coordSent >>

\* the X, Y and Z messages (tags 1, 2, 3) a solid rank sends to every fluid rank
CoordMessages(src, dests) == {<< src, j, tag >> : j \in dests, tag \in 1..3}

\* generateMapping, loop over solidInterfaceProcessors: the sends of the
\* rank that is iProc
MappingSend(r) ==
    /\ ipc[r] = "map_send"
    /\ LET procs == SeqOf(icfg.solidProcs)
       IN IF iProcPos[r] > Len(procs)
          THEN /\ ipc' = [ipc EXCEPT ![r] = "fill"]
               /\ UNCHANGED << coordMsgs, coordSent >>
          ELSE /\ ipc' = [ipc EXCEPT ![r] = "map_recv"]
               /\ IF procs[iProcPos[r]] = r
                  THEN /\ coordMsgs' = coordMsgs \cup CoordMessages(r, icfg.fluidProcs)
                       /\ coordSent' = coordSent + 3 * Cardinality(icfg.fluidProcs)
                  ELSE UNCHANGED << coordMsgs, coordSent >>
    /\ UNCHANGED << notInterp, icfg, iProcPos, chtTransferMethod, heatTransferCoeff,
                    fields, operators >>

\* generateMapping, loop over solidInterfaceProcessors: a fluid rank receives
\* the three messages of iProc and searches its matches
MappingRecv(r) ==
    /\ ipc[r] = "map_recv"
    /\ LET iProc == SeqOf(icfg.solidProcs)[iProcPos[r]]
           mine == {<< iProc, r, tag >> : tag \in 1..3}
       IN IF r \in icfg.fluidProcs
          THEN /\ mine \subseteq coordMsgs
               /\ coordMsgs' = coordMsgs \ mine
          ELSE UNCHANGED coordMsgs
    /\ iProcPos' = [iProcPos EXCEPT ![r] = iProcPos[r] + 1]
    /\ ipc' = [ipc EXCEPT ![r] = "map_send"]
    /\ UNCHANGED << notInterp, icfg, chtTransferMethod, heatTransferCoeff,
                    fields, operators, coordSent >>

\* generateMapping: fillMatrix on the fluid ranks, then the first barrier
FillMatrix(r) ==
    /\ ipc[r] = "fill"
    /\ ipc' = [ipc EXCEPT ![r] = "assemble"]
    /\ UNCHANGED << notInterp, icfg, iProcPos, chtTransferMethod, heatTransferCoeff,
                    fields, operators, coordMsgs, coordSent >>

\* generateMapping: the barriers and H.assemble(), H_T.assemble(), which
\* complete once every rank has arrived
AssembleOperators(r) ==
    /\ ipc[r] = "assemble"
    /\ \A q \in Ranks : ipc[q] \in {"assemble", "built"}
    /\ ipc' = [ipc EXCEPT ![r] = "built"]
    /\ UNCHANGED << notInterp, icfg, iProcPos, chtTransferMethod, heatTransferCoeff,
                    fields, operators, coordMsgs, coordSent >>

\* the run variables while an interpolator is constructed
RunIdle ==
    /\ conf = [algo |-> "BGSStatic", computationType |-> "unsteady", withCht |-> FALSE,
               hostsSolid |-> TRUE, nbFSIIterMax |-> 1, totTime |-> DeltaT,
               timeIterTreshold |-> -1, nbTimeToKeep |-> 0,
               qrFilter |-> "Haelterman", computeTangentMatrixBasedOnFirstIt |-> FALSE]
    /\ pc = "idle"
    /\ outcome = "running"
    /\ time = 0 /\ timeIter = 0 /\ deltaT = DeltaT /\ writeInFSIloop = FALSE
    /\ FSIIter = 0 /\ FSIConv = FALSE /\ errValue = "LO" /\ errValue_CHT = "LO"
    /\ totNbOfFSIIt = 0 /\ nbTimeIter = 0
    /\ nbFSIIter = 0 /\ solidHasRun = FALSE
    /\ maxNbOfItReached = FALSE /\ convergenceReachedInOneIt = FALSE
    /\ V = <<>> /\ W = <<>>
    /\ Vk = <<>> /\ Wk = <<>> /\ Vk_mat = <<>> /\ Wk_mat = <<>> /\ nIt = 0
    /\ solidInterfaceResidual0 = -1 /\ solidInterfaceDisplacement_tilde1 = -1
    /\ subOps = <<>>
    /\ fluidWindow = <<0, 0>> /\ solidWindow = <<0, 0>>
    /\ endMsgs = <<>>
    /\ loopExc = FALSE /\ diagPrinted = FALSE /\ printedSuccess = "none"
    /\ solidExitCalls = 0 /\ fluidExitCalls = 0
    /\ stepsDone = 0 /\ nSub = 0 /\ kFirst = 0
    /\ prevCall = [t |-> -1, iter |-> 0, cap |-> 0, conv |-> FALSE] /\ stored = <<>>
    /\ nonRoot = [maxNbOfItReached |-> FALSE, convergenceReachedInOneIt |-> FALSE,
                  V |-> <<>>, W |-> <<>>]
    /\ convMsgs = {} /\ nonconvMsgs = {}
    /\ stepOps = <<>> /\ nbPredictions = 0

InitInterp == RunIdle /\ RelaxIdle /\ MpiIdle /\ XferIdle /\ InterpInit

NextInterp ==
    \E r \in Ranks :
        \/ InterfaceInterpolatorInit(r)
        \/ MatchingCheck(r)
        \/ GenerateInterfaceData(r)
        \/ MappingSend(r)
        \/ MappingRecv(r)
        \/ FillMatrix(r)
        \/ AssembleOperators(r)

SpecInterp == InitInterp /\ [][NextInterp]_vars

\* ------------------------------------- AlgorithmBGSAitkenRelax.setOmega
\* variant: the floor omegaMin is forgotten
Clamp_NoFloor(x) == PyMin(x, One)

\* self.omega = min(self.omega, 1.0); self.omega = max(self.omega, self.omegaMin)
Clamp(x) == PyMax(PyMin(x, One), OmegaMin)

\* variant: the sign of the Aitken factor is lost
AitkenOmega_NoSign(om, r, rkM1) ==
    LET dr == VecSub(r, rkM1)
    IN IF NormSq(dr) # 0 THEN VMul(om, Dot(dr, rkM1), NormSq(dr)) ELSE OmegaMin

\* variant: omega is kept when the residual did not change
AitkenOmega_KeepOnZero(om, r, rkM1) ==
    LET dr == VecSub(r, rkM1)
    IN IF NormSq(dr) # 0 THEN VMul(om, -Dot(dr, rkM1), NormSq(dr)) ELSE om

\* the branch FSIIter != 0 of setOmega: omega *= -prodScalRes/deltaResNormSquare,
\* or omegaMin when deltaResNormSquare is zero
AitkenOmega(om, r, rkM1) ==
    LET dr == VecSub(r, rkM1)
    IN IF NormSq(dr) # 0 THEN VMul(om, -Dot(dr, rkM1), NormSq(dr)) ELSE OmegaMin

\* variant: aitkenCrit is not consulted
ResetOmega_AlwaysMax(omMax, om, crit) == PyMax(omMax, om)

\* the branch FSIIter == 0 of setOmega
ResetOmega(omMax, om, crit) ==
    IF crit = "max" THEN PyMax(omMax, om) ELSE PyMin(omMax, om)

\* the value setOmega leaves in self.omega
SetOmega(om, iter, r, rkM1, omMax, crit) ==
    Clamp(IF iter # 0 THEN AitkenOmega(om, r, rkM1) ELSE ResetOmega(omMax, om, crit))

\* the omegaMax values tried
OmegaMaxValues == { Val(-1, 1, 0), Zero, Val(1, 2, 0), One, Val(3, 2, 0) }

\* AlgorithmBGSAitkenRelax.__init__: omega = omegaMax, a zero residualkM1
AitkenInit ==
    /\ \E om \in OmegaMaxValues, crit \in {"max", "min"}, thr \in {-1, 0} :
          /\ rcfg = [omegaMax |-> om, aitkenCrit |-> crit, timeIterTreshold |-> thr]
          /\ omega = om
          /\ seen = [called |-> FALSE, omegaBefore |-> om, omegaAfter |-> om,
                     prevSubRes |-> ZeroVec, omegaAtStepEnd |-> om]
          /\ iqn = [omega |-> om, solidInterfaceResidualkM1 |-> ZeroVec,
                    solidInterfaceResidual0 |-> ZeroVec, lastDelta |-> << Zero, Zero >>,
                    branch |-> "none"]
    /\ rpc = "step_begin" /\ rTimeIter = 0 /\ rFSIIter = 0
    /\ solidInterfaceResidual = ZeroVec
    /\ solidInterfaceResidualkM1 = ZeroVec
    /\ lastDelta = << Zero, Zero >>
    /\ agree = TRUE /\ exact = TRUE

\* the head of fsiCoupling: FSIIter = 0; a step with
\* timeIter <= timeIterTreshold runs the fluid solver alone and relaxes nothing
AitkenStepBegin ==
    /\ rpc = "step_begin"
    /\ rFSIIter' = 0
    /\ rpc' = IF rTimeIter > rcfg.timeIterTreshold THEN "residual" ELSE "step_end"
    /\ UNCHANGED << notRelax, rcfg, rTimeIter, solidInterfaceResidual, omega,
                    solidInterfaceResidualkM1, lastDelta, seen, iqn, agree, exact >>

\* computeSolidInterfaceResidual(): the solvers give a residual
NewResidual ==
    /\ rpc = "residual"
    /\ \E r \in Residuals : solidInterfaceResidual' = r
    /\ rpc' = "relax"
    /\ UNCHANGED << notRelax, rcfg, rTimeIter, rFSIIter, omega,
                    solidInterfaceResidualkM1, lastDelta, seen, iqn, agree, exact >>

\* relaxSolidPosition() of the Aitken object: setOmega(), then
\* solidInterfaceDisplacement += omega*solidInterfaceResidual
AitkenRelaxes ==
    /\ omega' = SetOmega(omega, rFSIIter, solidInterfaceResidual,
                         solidInterfaceResidualkM1, rcfg.omegaMax, rcfg.aitkenCrit)
    /\ solidInterfaceResidualkM1' = solidInterfaceResidual
    /\ lastDelta' = Scaled(omega', solidInterfaceResidual)
    /\ seen' = [seen EXCEPT !.called = TRUE, !.omegaBefore = omega, !.omegaAfter = omega']

AitkenRelax ==
    /\ rpc = "relax"
    /\ AitkenRelaxes
    /\ rpc' = "sub_end"
    /\ UNCHANGED << notRelax, rcfg, rTimeIter, rFSIIter, solidInterfaceResidual,
                    iqn, agree, exact >>

\* FSIIter += 1 and the test of the while loop: the criterion may ask for
\* another sub-iteration
AitkenSubEnd ==
    /\ rpc = "sub_end"
    /\ rFSIIter' = rFSIIter + 1
    /\ seen' = [seen EXCEPT !.prevSubRes = solidInterfaceResidual]
    /\ \/ rFSIIter + 1 < MaxSubIt /\ rpc' = "residual"
       \/ rpc' = "step_end"
    /\ UNCHANGED << notRelax, rcfg, rTimeIter, solidInterfaceResidual, omega,
                    solidInterfaceResidualkM1, lastDelta, iqn, agree, exact >>

\* the end of the time step: timeIter += 1
AitkenStepEnd ==
    /\ rpc = "step_end"
    /\ seen' = [seen EXCEPT !.omegaAtStepEnd = omega]
    /\ rTimeIter' = rTimeIter + 1
    /\ rpc' = IF rTimeIter + 1 < MaxAitkenSteps THEN "step_begin" ELSE "done"
    /\ UNCHANGED << notRelax, rcfg, rFSIIter, solidInterfaceResidual, omega,
                    solidInterfaceResidualkM1, lastDelta, iqn, agree, exact >>

InitAitken == RunIdle /\ InterpIdle /\ MpiIdle /\ XferIdle /\ AitkenInit

NextAitken ==
    \/ AitkenStepBegin
    \/ NewResidual
    \/ AitkenRelax
    \/ AitkenSubEnd
    \/ AitkenStepEnd

SpecAitken == InitAitken /\ [][NextAitken]_vars

\* ------------------------------------------------------------ properties
\* positions inside one fsiCoupling call, after its prologue
CallPcs == {"fsi_test", "s2f_mecha", "mesh_update", "s2f_thermal", "fluid_run",
            "f2s_mecha", "f2s_thermal", "solid_run", "residual", "relax",
            "sub_end", "fsi_end"}

\* C1: when run() returns after an exception raised inside the time loop,
\* SolidSolver.exit() (on a rank hosting the solid solver) and
\* FluidSolver.exit() have each been called exactly once; neither is ever
\* called twice.
C1_TeardownAfterLoopException ==
    /\ solidExitCalls <= 1 /\ fluidExitCalls <= 1
    /\ (pc = "done" /\ outcome = "returned" /\ loopExc)
          => /\ fluidExitCalls = 1
             /\ solidExitCalls = (IF conf.hostsSolid THEN 1 ELSE 0)

C1_Witness ==
    pc = "done" /\ outcome = "returned" /\ loopExc /\ conf.hostsSolid
    /\ solidExitCalls = 1 /\ fluidExitCalls = 1

C3_SuccessFlagTruthful ==
    printedSuccess # "none" => (printedSuccess = "True" <=> ~loopExc)

\* C4: in a coupled step of AlgorithmBGSStaticRelax.fsiCoupling whose
\* criterion first reports 'verified' on the residual of sub-iteration k,
\* the loop runs min(k, nbFSIIterMax) sub-iterations, FSIIter never exceeds
\* nbFSIIterMax, and FSIConv holds at loop exit iff k <= nbFSIIterMax
\* (kFirst = 0 stands for a k beyond the cap, which is never observed).
C4_BGSLoopTermination ==
    conf.algo = "BGSStatic" =>
        /\ FSIIter <= conf.nbFSIIterMax
        /\ (pc = "fsi_test" /\ nSub = 0) => FSIIter = 0
        /\ (pc = "fsi_end" /\ Coupled(timeIter, conf.timeIterTreshold)) =>
              /\ nSub = (IF kFirst # 0 THEN kFirst ELSE conf.nbFSIIterMax)
              /\ FSIIter = nSub
              /\ FSIConv <=> kFirst # 0
              /\ kFirst <= conf.nbFSIIterMax

C4_Witness ==
    /\ conf.algo = "BGSStatic" /\ pc = "fsi_end"
    /\ Coupled(timeIter, conf.timeIterTreshold)
    /\ conf.nbFSIIterMax = 3 /\ kFirst = 2 /\ nSub = 2 /\ FSIConv

\* C5: in every sub-iteration of the mechanical algorithms, FluidSolver.run
\* comes after the displacement push and the mesh update of that
\* sub-iteration, and SolidSolver.run after the load push that follows that
\* sub-iteration's fluid run.
C5_MechanicalOrder ==
    conf.algo \in Mechanical =>
        /\ Precedes(subOps, "interpolateSolidDisplacementOnFluidMesh",
                            "setDisplacementToFluidSolver")
        /\ Precedes(subOps, "setDisplacementToFluidSolver", "FluidSolver.meshUpdate")
        /\ Precedes(subOps, "FluidSolver.meshUpdate", "FluidSolver.run")
        /\ Precedes(subOps, "FluidSolver.run", "getLoadsFromFluidSolver")
        /\ Precedes(subOps, "getLoadsFromFluidSolver", "interpolateFluidLoadsOnSolidMesh")
        /\ Precedes(subOps, "interpolateFluidLoadsOnSolidMesh", "setLoadsToSolidSolver")
        /\ Precedes(subOps, "setLoadsToSolidSolver", "SolidSolver.run")
        /\ \A i, j \in 1..Len(subOps) :
              (subOps[i] = subOps[j] /\ subOps[i] \in {"FluidSolver.run", "SolidSolver.run"})
                  => i = j

C5_Witness ==
    conf.algo = "IQN_ILS" /\ nSub = 2 /\ pc = "sub_end" /\ Has(subOps, "SolidSolver.run")

\* with conjugate heat transfer
ChtOn == conf.algo = "ThermalBGS" \/ (conf.algo \in {"BGSStatic", "BGSAitken"} /\ conf.withCht)

\* C6 (as claimed): with CHT, in every sub-iteration of every time step
\* FluidSolver.run comes after the solid-to-fluid thermal push and
\* SolidSolver.run after the fluid-to-solid thermal push.
C6_ThermalPushEverySubIter ==
    ChtOn =>
        /\ Precedes(subOps, "solidToFluidThermalTransfer", "FluidSolver.run")
        /\ Precedes(subOps, "fluidToSolidThermalTransfer", "SolidSolver.run")

\* C6 (amended): with CHT, FluidSolver.run comes after the solid-to-fluid
\* thermal push in every sub-iteration but the first of each fsiCoupling call;
\* in the first sub-iteration of a call no solid-to-fluid thermal push is made.
\* SolidSolver.run always comes after the fluid-to-solid thermal push.
C6_ThermalPushAfterFirstSubIter ==
    ChtOn =>
        /\ Has(subOps, "FluidSolver.run") =>
              IF nSub >= 2
              THEN Precedes(subOps, "solidToFluidThermalTransfer", "FluidSolver.run")
              ELSE ~Has(subOps, "solidToFluidThermalTransfer")
        /\ Precedes(subOps, "fluidToSolidThermalTransfer", "SolidSolver.run")

C6_Witness ==
    /\ ChtOn /\ nSub = 2 /\ pc = "sub_end"
    /\ Has(subOps, "solidToFluidThermalTransfer") /\ Has(subOps, "SolidSolver.run")

C8_NonConvergenceLogged == convMsgs \cap nonconvMsgs = {}

\* the previous fsiCoupling call of an IQN-ILS run with history reuse ended
\* at the cap nbFSIIterMax without convergence
PrevStepHitCap ==
    /\ conf.algo = "IQN_ILS" /\ conf.nbTimeToKeep # 0
    /\ prevCall.t >= 1
    /\ prevCall.t > conf.timeIterTreshold
    /\ prevCall.iter >= prevCall.cap /\ ~prevCall.conv

StepsOf(L) == [i \in 1..Len(L) |-> L[i].t]

\* C10: in IQN-ILS with nbTimeToKeep >= 1, V and W always have the same
\* length, at most nbTimeToKeep; corresponding entries hold the same number of
\* columns; the entries are those of the most recently stored steps, newest
\* first.
C10_HistoryPruned ==
    (conf.algo = "IQN_ILS" /\ conf.nbTimeToKeep >= 1) =>
        /\ Len(V) = Len(W)
        /\ Len(V) <= conf.nbTimeToKeep
        /\ \A i \in 1..Len(V) : V[i].t = W[i].t /\ Len(V[i].m) = Len(W[i].m)
        /\ Len(V) <= Len(stored)
        /\ StepsOf(V) = SubSeq(stored, 1, Len(V))

C10_Witness ==
    /\ conf.algo = "IQN_ILS" /\ conf.nbTimeToKeep = 2 /\ pc = "post_coupling"
    /\ Len(V) = 2 /\ Len(stored) = 3 /\ Len(V[1].m) >= 1

C17_StepOrder ==
    conf.computationType = "unsteady" =>
        /\ Precedes(stepOps, "FluidSolver.preprocessTimeIter", "fsiCoupling")
        /\ conf.hostsSolid => Precedes(stepOps, "SolidSolver.preprocessTimeIter", "fsiCoupling")
        /\ Precedes(stepOps, "fsiCoupling", "FluidSolver.update")
        /\ Precedes(stepOps, "fsiCoupling", "SolidSolver.update")
        /\ Precedes(stepOps, "FluidSolver.update", "FluidSolver.save")
        /\ Precedes(stepOps, "FluidSolver.update", "SolidSolver.save")
        /\ Precedes(stepOps, "SolidSolver.update", "SolidSolver.save")
        /\ conf.hostsSolid => Precedes(stepOps, "SolidSolver.update", "FluidSolver.save")
        /\ Precedes(stepOps, "FluidSolver.save", "writeRealTimeData")
        /\ conf.hostsSolid => Precedes(stepOps, "SolidSolver.save", "writeRealTimeData")
        /\ Precedes(stepOps, "writeRealTimeData", "SolidSolver.remeshing")
        /\ Precedes(stepOps, "writeRealTimeData", "FluidSolver.remeshing")
        /\ conf.hostsSolid => Precedes(stepOps, "SolidSolver.remeshing", "FluidSolver.remeshing")
        /\ Precedes(stepOps, "FluidSolver.remeshing", "solidDisplacementPredictor")
        /\ Precedes(stepOps, "FluidSolver.remeshing", "advance")
        /\ pc \in CallPcs \cup {"fsi_enter", "post_coupling", "advance"}
              => (~Has(stepOps, "advance") /\ ~Has(stepOps, "solidDisplacementPredictor"))
        /\ \A i, j \in 1..Len(stepOps) : stepOps[i] = stepOps[j] => i = j
        /\ (pc = "loop_test" /\ stepsDone >= 1) =>
              /\ \A op \in {"FluidSolver.preprocessTimeIter", "fsiCoupling",
                              "FluidSolver.update", "FluidSolver.save", "writeRealTimeData",
                              "FluidSolver.remeshing"} : Has(stepOps, op)
              /\ \A op \in {"SolidSolver.preprocessTimeIter", "SolidSolver.update",
                              "SolidSolver.save", "SolidSolver.remeshing"} :
                        Has(stepOps, op) <=> conf.hostsSolid
              /\ Has(stepOps, "solidDisplacementPredictor")
                    <=> (timeIter - 1 >= conf.timeIterTreshold)
              /\ stepOps[Len(stepOps)] = "advance"
              /\ Has(stepOps, "solidDisplacementPredictor")
                    => stepOps[Len(stepOps) - 1] = "solidDisplacementPredictor"
        /\ nbPredictions = Cardinality({i \in 0..(stepsDone - 1) : i >= conf.timeIterTreshold})

C17_Witness ==
    /\ conf.computationType = "unsteady" /\ conf.hostsSolid /\ conf.timeIterTreshold = 1
    /\ pc = "loop_test" /\ stepsDone = 2 /\ nbPredictions = 1
    /\ Has(stepOps, "solidDisplacementPredictor")

\* positions inside the body of the while loop of fsiCoupling
BodyPcs == CallPcs \ {"fsi_test", "fsi_end"}

\* C18 (as claimed): in a steady computation, during every sub-iteration of
\* the fsiCoupling call, timeIter = 1, deltaT = totTime and the time equals
\* totTime, for every algorithm.
C18_SteadyTimeStays ==
    (conf.computationType = "steady" /\ pc \in BodyPcs) =>
        (timeIter = 1 /\ deltaT = conf.totTime /\ time = conf.totTime)

\* C18 (amended): a steady computation makes exactly one fsiCoupling call,
\* with timeIter = 1 and deltaT = totTime. The time is totTime in the first
\* sub-iteration; AlgorithmIQN_ILS leaves it there, the BGS loops (static,
\* Aitken, thermal) add deltaT to it at the end of every sub-iteration, so
\* that their sub-iteration k (counted from 0) runs at time (k+1)*totTime.
C18_SteadySingleCall ==
    conf.computationType = "steady" =>
        /\ pc \in CallPcs \cup {"fsi_enter"} =>
              /\ prevCall.t = -1
              /\ timeIter = 1 /\ deltaT = conf.totTime
        /\ pc \in CallPcs =>
              time = (IF conf.algo \in {"BGSStatic", "BGSAitken", "ThermalBGS"}
                      THEN (FSIIter + 1) * conf.totTime ELSE conf.totTime)
        /\ (pc \in {"finally", "solid_exit", "fluid_exit", "exit_barrier"} /\ ~loopExc)
              => (prevCall.t = 1 /\ totNbOfFSIIt = FSIIter)
        /\ stepsDone = 0

C18_Witness ==
    /\ conf.computationType = "steady" /\ conf.algo = "BGSAitken"
    /\ pc = "fluid_run" /\ nSub = 2 /\ time = 2 * conf.totTime

\* -------------------------------------------- properties of SpecInterp
\* C19: with nf # ns the constructor of MatchingMeshesInterpolator raises on
\* every rank, before any interface field or matrix is allocated and before
\* any coordinate message is sent; with nf = ns no rank raises, the fields and
\* matrices are allocated by generateInterfaceData and only then does
\* generateMapping send coordinates.
C19_MatchingNodeCounts ==
    /\ icfg.nf # icfg.ns =>
          /\ \A r \in Ranks :
                /\ ipc[r] \in {"base_init", "matching_check", "raised"}
                /\ fields[r] = {} /\ operators[r] = {}
          /\ coordMsgs = {} /\ coordSent = 0
    /\ icfg.nf = icfg.ns =>
          \A r \in Ranks :
             /\ ipc[r] # "raised"
             /\ ipc[r] \in {"map_send", "map_recv", "fill", "assemble", "built"} =>
                   /\ operators[r] = {"H", "H_T"}
                   /\ icfg.withFsi => "solidInterfaceDisplacement" \in fields[r]
             /\ (\E m \in coordMsgs : m[1] = r) =>
                   ipc[r] \in {"map_recv", "map_send", "fill", "assemble", "built"}

C19_Witness ==
    /\ icfg.nf # icfg.ns /\ \A r \in Ranks : ipc[r] = "raised"
    /\ coordSent = 0

\* C20 (as claimed): with conjugate heat transfer enabled and a
\* chtTransferMethod that is none of TFFB, FFTB, hFTB, hFFB, no rank completes
\* the construction.
C20_BadChtMethodFails ==
    (icfg.withCht /\ icfg.chtArg \notin ChtMethods) =>
        \A r \in Ranks : ipc[r] \notin {"gen_data", "map_send", "map_recv", "fill",
                                        "assemble", "built"}

\* C20 (amended): with conjugate heat transfer enabled and a
\* chtTransferMethod that is none of TFFB, FFTB, hFTB, hFFB (None included),
\* the constructor does not fail on that account: it takes 'TFFB' as the
\* method (no heat transfer coefficient) and goes on to allocate the fields
\* of TFFB; it raises only if the node counts of a matching interpolator differ.
C20_BadChtMethodDefaults ==
    (icfg.withCht /\ icfg.chtArg \notin ChtMethods) =>
        \A r \in Ranks :
           /\ ipc[r] # "base_init" =>
                 (chtTransferMethod[r] = "TFFB" /\ heatTransferCoeff[r] = "None")
           /\ ipc[r] = "raised" => icfg.nf # icfg.ns
           /\ ipc[r] \in {"map_send", "map_recv", "fill", "assemble", "built"} =>
                 {"solidInterfaceTemperature", "fluidInterfaceTemperature",
                  "solidInterfaceHeatFlux", "fluidInterfaceHeatFlux"} \subseteq fields[r]

C20_Witness ==
    /\ icfg.withCht /\ icfg.chtArg = "other"
    /\ \A r \in Ranks : ipc[r] = "built" /\ chtTransferMethod[r] = "TFFB"

\* -------------------------------------------- properties of SpecAitken
\* x brought into [omegaMin, 1.0]
ClampedTo(x) ==
    IF VLess(x, OmegaMin) THEN OmegaMin ELSE IF VLess(One, x) THEN One ELSE x

\* the Aitken factor -(dr . r_{k-1}) / |dr|^2 times x, for dr = r - rPrev # 0
TimesAitkenFactor(x, r, rPrev) ==
    Val(-(x.n * Dot(VecSub(r, rPrev), rPrev)), x.d * NormSq(VecSub(r, rPrev)), x.e)

\* setOmega has just returned
AfterSetOmega == rpc = "sub_end"

\* C13: after every call of setOmega, whatever the residuals and omegaMax,
\* omegaMin <= omega <= 1.0: omega is a rational in (0, 1] or a multiple
\* q * omegaMin with q >= 1.
C13_OmegaInRange ==
    seen.called =>
        /\ omega.d > 0
        /\ omega.e = 0 => (0 < omega.n /\ omega.n <= omega.d)
        /\ omega.e = 1 => omega.n >= omega.d
        /\ omega.e \in {0, 1}

C13_Witness ==
    /\ AfterSetOmega /\ rFSIIter = 2 /\ rcfg.omegaMax = Val(3, 2, 0)
    /\ omega = Val(1, 4, 0)

\* C14: at every sub-iteration k >= 1 of a step, with dr the difference
\* between the residual and the residual of the previous sub-iteration of the
\* same step, the new omega is the previous omega times
\* -(dr . r_{k-1}) / |dr|^2 brought into [omegaMin, 1.0], and omegaMin when
\* |dr|^2 = 0.
C14_AitkenFormula ==
    (AfterSetOmega /\ rFSIIter >= 1) =>
        omega = IF NormSq(VecSub(solidInterfaceResidual, seen.prevSubRes)) = 0
                THEN OmegaMin
                ELSE ClampedTo(TimesAitkenFactor(seen.omegaBefore, solidInterfaceResidual,
                                                 seen.prevSubRes))

C14_Witness ==
    /\ AfterSetOmega /\ rFSIIter = 2 /\ seen.omegaBefore = Val(1, 2, 0)
    /\ omega = Val(3, 10, 0)

\* C15 (as claimed): the omega computed from two consecutive residuals is
\* -(dr . r_{k-1}) / |dr|^2 brought into [omegaMin, 1.0], and it is omegaMin
\* if and only if |dr| = 0.
C15_FactorAlone ==
    (AfterSetOmega /\ rFSIIter >= 1) =>
        LET dr == VecSub(solidInterfaceResidual, seen.prevSubRes)
        IN /\ NormSq(dr) # 0
                 => omega = ClampedTo(TimesAitkenFactor(One, solidInterfaceResidual,
                                                        seen.prevSubRes))
           /\ omega = OmegaMin <=> NormSq(dr) = 0

\* C15 (amended): the omega computed from two consecutive residuals is the
\* previous omega times -(dr . r_{k-1}) / |dr|^2, brought into
\* [omegaMin, 1.0]; |dr| = 0 gives omegaMin, and so does every product that
\* is not above omegaMin: omega = omegaMin if and only if |dr| = 0 or the
\* product is at most omegaMin.
C15_FactorTimesPrevious ==
    (AfterSetOmega /\ rFSIIter >= 1) =>
        LET dr == VecSub(solidInterfaceResidual, seen.prevSubRes)
            product == TimesAitkenFactor(seen.omegaBefore, solidInterfaceResidual,
                                         seen.prevSubRes)
        IN /\ NormSq(dr) = 0 => omega = OmegaMin
           /\ NormSq(dr) # 0 =>
                 /\ VLess(OmegaMin, product) /\ VLess(product, One) => omega = product
                 /\ ~VLess(product, One) => omega = One
           /\ omega = OmegaMin <=> (NormSq(dr) = 0 \/ ~VLess(OmegaMin, product))

C15_Witness ==
    /\ AfterSetOmega /\ rFSIIter >= 1 /\ omega = OmegaMin
    /\ NormSq(VecSub(solidInterfaceResidual, seen.prevSubRes)) # 0

\* C16: the first setOmega of a time step (FSIIter = 0) sets omega to
\* max(omegaMax, omega) when aitkenCrit is 'max' and to min(omegaMax, omega)
\* otherwise, omega being the value left by the previous time step (omegaMax
\* before the first), then brings it into [omegaMin, 1.0]; between two calls
\* of a time step omega keeps its value.
C16_OmegaReset ==
    /\ (AfterSetOmega /\ rFSIIter = 0) =>
          LET old == seen.omegaAtStepEnd
              larger == IF VLess(old, rcfg.omegaMax) THEN rcfg.omegaMax ELSE old
              smaller == IF VLess(old, rcfg.omegaMax) THEN old ELSE rcfg.omegaMax
          IN /\ seen.omegaBefore = old
             /\ omega = ClampedTo(IF rcfg.aitkenCrit = "max" THEN larger ELSE smaller)
    /\ (rpc \in {"residual", "relax", "sub_end"} /\ seen.called) => omega = seen.omegaAfter
    /\ (rpc = "relax" /\ rFSIIter = 0) => omega = seen.omegaAtStepEnd

C16_Witness ==
    /\ AfterSetOmega /\ rFSIIter = 0 /\ rTimeIter = 1 /\ rcfg.aitkenCrit = "min"
    /\ rcfg.omegaMax = Val(1, 2, 0) /\ omega = Val(1, 4, 0)

\* ------------------------- IQN-ILS next to Aitken, on the same residuals
\* AlgorithmIQN_ILS with nbTimeToKeep = 0 (record iqn) and
\* AlgorithmBGSAitkenRelax (omega, solidInterfaceResidualkM1, lastDelta) are
\* given the same omegaMax and, as long as their displacements agree, the same
\* residuals by the solvers; every step of timeIter > timeIterTreshold has
\* two sub-iterations.

\* the omegaMax values of the comparison
TwinOmegaMaxValues == { Val(1, 2, 0), One, Val(3, 2, 0) }

TwinInit ==
    /\ \E om \in TwinOmegaMaxValues, thr \in {-1, 0} :
          /\ rcfg = [omegaMax |-> om, aitkenCrit |-> "max", timeIterTreshold |-> thr]
          /\ omega = om
          /\ seen = [called |-> FALSE, omegaBefore |-> om, omegaAfter |-> om,
                     prevSubRes |-> ZeroVec, omegaAtStepEnd |-> om]
          /\ iqn = [omega |-> om, solidInterfaceResidualkM1 |-> ZeroVec,
                    solidInterfaceResidual0 |-> ZeroVec, lastDelta |-> << Zero, Zero >>,
                    branch |-> "none"]
    /\ rpc = "twin_begin" /\ rTimeIter = 0 /\ rFSIIter = 0
    /\ solidInterfaceResidual = ZeroVec
    /\ solidInterfaceResidualkM1 = ZeroVec
    /\ lastDelta = << Zero, Zero >>
    /\ agree = TRUE /\ exact = TRUE

\* the head of both fsiCoupling methods
TwinStepBegin ==
    /\ rpc = "twin_begin"
    /\ rFSIIter' = 0
    /\ rpc' = IF rTimeIter > rcfg.timeIterTreshold THEN "twin_residual" ELSE "twin_end"
    /\ UNCHANGED << notRelax, rcfg, rTimeIter, solidInterfaceResidual, omega,
                    solidInterfaceResidualkM1, lastDelta, seen, iqn, agree, exact >>

\* the same displacements give the same residual to both
TwinResidual ==
    /\ rpc = "twin_residual"
    /\ agree
    /\ \E r \in Residuals : solidInterfaceResidual' = r
    /\ rpc' = "twin_relax"
    /\ UNCHANGED << notRelax, rcfg, rTimeIter, rFSIIter, omega,
                    solidInterfaceResidualkM1, lastDelta, seen, iqn, agree, exact >>

\* the displacements differ: the two runs are not followed further
TwinDiverged ==
    /\ rpc = "twin_residual"
    /\ ~agree
    /\ rpc' = "done"
    /\ UNCHANGED << notRelax, rcfg, rTimeIter, rFSIIter, solidInterfaceResidual, omega,
                    solidInterfaceResidualkM1, lastDelta, seen, iqn, agree, exact >>

\* the coefficients c that minimise |V*c + res| for a single column V; a zero
\* column leaves c free, and two values are tried
LeastSquares(col, res) ==
    IF NormSq(col) = 0 THEN { Zero, Val(-1, 1, 0) }
    ELSE { Val(-Dot(col, res), NormSq(col), 0) }

\* variant: the residual is not added to W*c
IqnIncrement_NoRes(col, c, res) ==
    << VMul(col[1], c.n, c.d), VMul(col[2], c.n, c.d) >>

\* delta_ds = W*c + res, for a single column W of rationals
IqnIncrement(col, c, res) ==
    << VAddInt(VMul(col[1], c.n, c.d), res[1]), VAddInt(VMul(col[2], c.n, c.d), res[2]) >>

\* the columns delta_res = res - solidInterfaceResidual0 and
\* delta_d = d_tilde - d_tilde1, d_tilde being the displacement plus the
\* residual: the last increment of the displacement plus delta_res
DeltaRes(res, res0) == VecSub(res, res0)
DeltaD(last, res, res0) ==
    << VAddInt(last[1], DeltaRes(res, res0)[1]), VAddInt(last[2], DeltaRes(res, res0)[2]) >>

\* one sub-iteration of AlgorithmIQN_ILS.fsiCoupling after the residual
IqnCorrects ==
    IF RelaxBranch(rFSIIter, 0, FALSE, FALSE, rTimeIter)
    THEN LET om == SetOmega(iqn.omega, rFSIIter, solidInterfaceResidual,
                            iqn.solidInterfaceResidualkM1, rcfg.omegaMax, rcfg.aitkenCrit)
         IN iqn' = [omega |-> om,
                    solidInterfaceResidualkM1 |-> solidInterfaceResidual,
                    solidInterfaceResidual0 |-> solidInterfaceResidual,
                    lastDelta |-> Scaled(om, solidInterfaceResidual),
                    branch |-> "relax"]
    ELSE \E c \in LeastSquares(DeltaRes(solidInterfaceResidual, iqn.solidInterfaceResidual0),
                                solidInterfaceResidual) :
            iqn' = [iqn EXCEPT
                      !.lastDelta = IqnIncrement(DeltaD(iqn.lastDelta, solidInterfaceResidual,
                                                        iqn.solidInterfaceResidual0),
                                                 c, solidInterfaceResidual),
                      !.solidInterfaceResidual0 = solidInterfaceResidual,
                      !.branch = "qn"]

\* the Aitken update of this sub-iteration has a nonzero |dr| and its product
\* is within [omegaMin, 1.0]
UpdateUnclamped ==
    LET dr == VecSub(solidInterfaceResidual, solidInterfaceResidualkM1)
    IN /\ NormSq(dr) # 0
       /\ LET product == Val(-(omega.n * Dot(dr, solidInterfaceResidualkM1)),
                             omega.d * NormSq(dr), omega.e)
          IN ~VLess(product, OmegaMin) /\ ~VLess(One, product)

\* both objects treat the residual
TwinRelax ==
    /\ rpc = "twin_relax"
    /\ AitkenRelaxes
    /\ IqnCorrects
    /\ agree' = (agree /\ lastDelta' = iqn'.lastDelta)
    /\ exact' = (exact /\ (iqn'.branch = "qn" => UpdateUnclamped))
    /\ rpc' = "twin_sub_end"
    /\ UNCHANGED << notRelax, rcfg, rTimeIter, rFSIIter, solidInterfaceResidual >>

\* FSIIter += 1; the criterion is met after the second sub-iteration
TwinSubEnd ==
    /\ rpc = "twin_sub_end"
    /\ rFSIIter' = rFSIIter + 1
    /\ rpc' = IF rFSIIter = 0 THEN "twin_residual" ELSE "twin_end"
    /\ UNCHANGED << notRelax, rcfg, rTimeIter, solidInterfaceResidual, omega,
                    solidInterfaceResidualkM1, lastDelta, seen, iqn, agree, exact >>

\* the end of the time step: timeIter += 1
TwinStepEnd ==
    /\ rpc = "twin_end"
    /\ rTimeIter' = rTimeIter + 1
    /\ rpc' = IF rTimeIter + 1 < ScenarioSteps THEN "twin_begin" ELSE "done"
    /\ UNCHANGED << notRelax, rcfg, rFSIIter, solidInterfaceResidual, omega,
                    solidInterfaceResidualkM1, lastDelta, seen, iqn, agree, exact >>

InitIqnAitken == RunIdle /\ InterpIdle /\ MpiIdle /\ XferIdle /\ TwinInit

NextIqnAitken ==
    \/ TwinStepBegin
    \/ TwinResidual
    \/ TwinDiverged
    \/ TwinRelax
    \/ TwinSubEnd
    \/ TwinStepEnd

SpecIqnAitken == InitIqnAitken /\ [][NextIqnAitken]_vars

TeardownPcs == {"finally", "solid_exit", "fluid_exit", "exit_barrier", "done"}

\* the QR filter of the run is none of the three of the documentation
UnknownFilter == conf.qrFilter \notin {"Degroote1", "Degroote2", "Haelterman"}

C28_TeardownUnconditional ==
    pc = "done" =>
        /\ fluidExitCalls = 1
        /\ conf.hostsSolid => solidExitCalls = 1

\* C29: whenever the quasi-Newton branch is taken and np.vstack succeeds, the
\* matrix Vk_mat it builds has at least one column.
C29_VkMatHasColumn ==
    (conf.algo = "IQN_ILS" /\ conf.nbTimeToKeep >= 1
        /\ Has(subOps, "iqnCorrection") /\ ~Has(subOps, "ValueError")) =>
        Len(Vk_mat) >= 1

\* ---------------------------------------------------------------------------
\* generateMapping() under MPI, followed on every rank
\* ---------------------------------------------------------------------------

Variants == {"matching", "conservative", "consistent"}

\* a standard-mode Send returns at once when the library buffers the message
\* and only when the matching Recv is posted when it does not
SendModes == {"buffered", "rendezvous"}

\* one call of a rank: what it is, the exchange loop it belongs to, and the
\* peer rank or the operator it is about
Instr(op, ph, arg) == [op |-> op, ph |-> ph, arg |-> arg]

\* the exchange loops of generateMapping() in the order they are run: who
\* sends its coordinates, who receives them, and the operators assembled
\* after the loop
ExchangeLoops(variant, solidProcs, fluidProcs) ==
    CASE variant = "matching" ->
            << [name |-> "H", senders |-> solidProcs, receivers |-> fluidProcs,
                fillAfter |-> TRUE, ops |-> << "H", "H_T" >>] >>
      [] variant = "conservative" ->
            << [name |-> "A", senders |-> solidProcs, receivers |-> solidProcs,
                fillAfter |-> FALSE, ops |-> << "A", "A_T" >>],
               [name |-> "B", senders |-> solidProcs, receivers |-> fluidProcs,
                fillAfter |-> FALSE, ops |-> << "B", "B_T" >>] >>
      [] variant = "consistent" ->
            << [name |-> "A", senders |-> solidProcs, receivers |-> solidProcs,
                fillAfter |-> FALSE, ops |-> << "A" >>],
               [name |-> "BD", senders |-> solidProcs, receivers |-> fluidProcs,
                fillAfter |-> FALSE, ops |-> << "B", "D" >>],
               [name |-> "C", senders |-> fluidProcs, receivers |-> fluidProcs,
                fillAfter |-> FALSE, ops |-> << "C" >>] >>

\* the operators a variant assembles
OperatorsOf(variant) ==
    CASE variant = "matching" -> {"H", "H_T"}
      [] variant = "conservative" -> {"A", "A_T", "B", "B_T"}
      [] variant = "consistent" -> {"A", "B", "D", "C"}

\* for jProc in ...: Send X, Y, Z with the tags 1, 2, 3 to jProc
SendsTo(ph, dests) ==
    [k \in 1..Len(dests) |-> Instr("send", ph, dests[k])]

\* one turn of "for iProc in ...": the rank iProc sends to every receiver,
\* then every receiver posts its three Recv from iProc
LoopTurn_SendToAll(r, loop, iProc) ==
    (IF r = iProc THEN SendsTo(loop.name, SeqOf(Ranks)) ELSE << >>)
    \o (IF r \in loop.receivers THEN << Instr("recv", loop.name, iProc) >> ELSE << >>)

LoopTurn(r, loop, iProc) ==
    (IF r = iProc THEN SendsTo(loop.name, SeqOf(loop.receivers)) ELSE << >>)
    \o (IF r \in loop.receivers THEN << Instr("recv", loop.name, iProc) >> ELSE << >>)

RECURSIVE LoopTurns(_, _, _)
LoopTurns(r, loop, procs) ==
    IF procs = << >> THEN << >>
    ELSE LoopTurn(r, loop, Head(procs)) \o LoopTurns(r, loop, Tail(procs))

\* op.assemble() followed by mpiBarrier, for each operator of the loop
RECURSIVE AssembleSteps_NoBarrier(_, _)
AssembleSteps_NoBarrier(ph, ops) ==
    IF ops = << >> THEN << >>
    ELSE << Instr("assemble", ph, Head(ops)) >> \o AssembleSteps_NoBarrier(ph, Tail(ops))

RECURSIVE AssembleSteps(_, _)
AssembleSteps(ph, ops) ==
    IF ops = << >> THEN << >>
    ELSE << Instr("assemble", ph, Head(ops)), Instr("barrier", ph, "after") >>
         \o AssembleSteps(ph, Tail(ops))

\* one exchange loop with what follows it: the fill of the matching
\* interpolator, the barrier, the assemblies
LoopSteps(r, loop) ==
    LoopTurns(r, loop, SeqOf(loop.senders))
    \o (IF loop.fillAfter /\ r \in loop.receivers
        THEN << Instr("fillMatrix", loop.name, "H") >> ELSE << >>)
    \o << Instr("barrier", loop.name, "before") >>
    \o AssembleSteps(loop.name, loop.ops)

RECURSIVE AllLoopSteps(_, _)
AllLoopSteps(r, loops) ==
    IF loops = << >> THEN << >>
    ELSE LoopSteps(r, Head(loops)) \o AllLoopSteps(r, Tail(loops))

\* the linear solvers built at the end of generateMapping()
SolverSteps(variant) ==
    CASE variant = "matching" -> << >>
      [] variant = "conservative" ->
            << Instr("solver", "end", "A"), Instr("solver", "end", "A_T") >>
      [] variant = "consistent" ->
            << Instr("solver", "end", "A"), Instr("solver", "end", "C") >>

\* interpolateSolidToFluid() then interpolateFluidToSolid()
UseSteps(variant) ==
    CASE variant = "matching" ->
            << Instr("mult", "use", "H"), Instr("mult", "use", "H_T") >>
      [] variant = "conservative" ->
            << Instr("solve", "use", "A"), Instr("mult", "use", "B"),
               Instr("mult", "use", "B_T"), Instr("solve", "use", "A_T") >>
      [] variant = "consistent" ->
            << Instr("solve", "use", "A"), Instr("mult", "use", "B"),
               Instr("solve", "use", "C"), Instr("mult", "use", "D") >>

\* everything rank r calls from the start of generateMapping() to the end of
\* the first transfer in each direction
MappingProgram(r, variant, solidProcs, fluidProcs) ==
    AllLoopSteps(r, ExchangeLoops(variant, solidProcs, fluidProcs))
    \o SolverSteps(variant)
    \o UseSteps(variant)

\* ---------------------------------------------------------------------------
\* redistributeDataToFluidSolver() / redistributeDataToSolidSolver() under MPI
\* ---------------------------------------------------------------------------

\* number of components of the redistributed field
FieldDims == {1, 3}

\* number of interface nodes rank p owns
NodesDistribution(owners, nLoc) == [p \in Ranks |-> IF p \in owners THEN nLoc ELSE 0]

RECURSIVE NodesBefore(_, _, _)
NodesBefore(owners, nLoc, p) ==
    IF p = 0 THEN 0
    ELSE NodesBefore(owners, nLoc, p - 1) + NodesDistribution(owners, nLoc)[p - 1]

\* first global index of the contiguous range of rank p
GlobalIndexRangeStart(p) == NodesBefore(mcfg.owners, mcfg.nLoc, p)

NbGlobalNodes == NodesBefore(mcfg.owners, mcfg.nLoc, NbRanks)

\* global index the manager gives to the local vertex iVertex of rank p
GetGlobalIndex(p, iVertex) == GlobalIndexRangeStart(p) + iVertex

\* the value the solver of rank p holds at its local vertex iVertex for the
\* component iDim
LocalValue(p, iVertex, iDim) == 100 * (p + 1) + 10 * iVertex + iDim

\* the field after the getter of every owning rank has written its values and
\* assemble() has been called
AssembledField ==
    [iDim \in 0..(mcfg.nDim - 1) |->
        [g \in 0..(NbGlobalNodes - 1) |->
            LET p == CHOOSE q \in mcfg.owners :
                        /\ GlobalIndexRangeStart(q) <= g
                        /\ g < GlobalIndexRangeStart(q) + mcfg.nLoc
                iVertex == CHOOSE i \in 0..(mcfg.nLoc - 1) : GetGlobalIndex(p, i) = g
            IN LocalValue(p, iVertex, iDim)]]

\* mpiGatherv(...) to rank 0 of the component iDim
GatheredArray(iDim) == AssembledField[iDim]

\* the number a solver gives to the node with the global index g
HaloKey(g) == 50 + g

\* manager.getFluidIndexing() / getSolidIndexing()
Indexing(key) == key - 50

\* manager.getFluidHaloNodesList()[iProc].keys(): the first node of every other
\* owning rank, or nothing
HaloNodesList(iProc) ==
    IF mcfg.withHalo
    THEN {HaloKey(GlobalIndexRangeStart(q)) : q \in mcfg.owners \ {iProc}}
    ELSE {}

\* sendBuff[iDim] of rank 0 for the rank iProc
SendBuff_FromZero(recon, iProc, iDim) ==
    [iVertex \in 0..(NodesDistribution(mcfg.owners, mcfg.nLoc)[iProc] - 1) |->
        recon[iDim + 1][iVertex]]

SendBuff(recon, iProc, iDim) ==
    [iVertex \in 0..(NodesDistribution(mcfg.owners, mcfg.nLoc)[iProc] - 1) |->
        recon[iDim + 1][GlobalIndexRangeStart(iProc) + iVertex]]

\* sendBuffHalo[key]
SendBuffHalo(recon, key) == [c \in 1..mcfg.nDim |-> recon[c][Indexing(key)]]

\* a row of the array with three columns that carries the halo values: a list
\* of three values fills it, a list of one value is repeated
HaloRow(values) ==
    IF Len(values) = 3 THEN values ELSE << values[1], values[1], values[1] >>

\* the messages rank 0 sends to iProc: the components with the tags 1, 2, ...,
\* then the number of halo nodes, their keys and their values with the tags
\* 101, 102, 103
RedistMessages(recon, iProc) ==
    LET keys == SeqOf(HaloNodesList(iProc))
        Msg(tag, body) == [ph |-> "redist", tag |-> tag, donor |-> 0, body |-> body]
    IN [c \in 1..mcfg.nDim |-> Msg(c, SendBuff(recon, iProc, c - 1))]
       \o << Msg(101, Len(keys)),
             Msg(102, keys),
             Msg(103, [ii \in 1..Len(keys) |-> HaloRow(SendBuffHalo(recon, keys[ii]))]) >>

\* what a rank returns when it receives nothing
NoResult == [arrays |-> "None", halo |-> << >>]

\* a rank that has not made any call yet
NothingSeen ==
    [rows |-> << >>, done |-> << >>, recon |-> << >>, result |-> NoResult, inBarrier |-> FALSE,
     delta_ds |-> << >>, solidInterfaceDisplacement |-> << >>]

\* (local arrays, haloNodesData) of a receiving rank
Unpacked(msgs) ==
    LET keyBuff == msgs[mcfg.nDim + 2].body
        values == msgs[mcfg.nDim + 3].body
    IN [arrays |-> [c \in 1..mcfg.nDim |-> msgs[c].body],
        halo |-> [key \in {keyBuff[ii] : ii \in 1..Len(keyBuff)} |->
                     values[CHOOSE ii \in 1..Len(keyBuff) : keyBuff[ii] = key]]]

\* the calls of rank r: the gathers, the sends of rank 0, the receives of an
\* owning rank
RedistProgram(r, owners, nDim) ==
    [c \in 1..nDim |-> Instr("gather", "redist", c - 1)]
    \o (IF r = 0 THEN SendsTo("redist", SeqOf(owners)) ELSE << >>)
    \o (IF r \in owners THEN << Instr("recv", "redist", 0) >> ELSE << >>)

RedistInit ==
    /\ \E side \in {"fluid", "solid"}, ow \in {{0}, {NbRanks - 1}, Ranks},
          nd \in FieldDims, n \in {1, MaxNodes}, h \in BOOLEAN, m \in SendModes :
          mcfg = [method |-> "redistribute", side |-> side, owners |-> ow,
                  nDim |-> nd, nLoc |-> n, withHalo |-> h, sendMode |-> m,
                  calls |-> [r \in Ranks |-> RedistProgram(r, ow, nd)]]
    /\ mpos = [r \in Ranks |-> 1]
    /\ mchan = [p \in Ranks |-> [q \in Ranks |-> << >>]]
    /\ mbar = [r \in Ranks |-> 0]
    /\ mseen = [r \in Ranks |-> NothingSeen]

MappingInit ==
    /\ \E v \in Variants, sp \in {{0}, {NbRanks - 1}, Ranks},
          fp \in {{0}, {NbRanks - 1}, Ranks}, m \in SendModes :
          mcfg = [method |-> "generateMapping", variant |-> v,
                  solidProcs |-> sp, fluidProcs |-> fp, sendMode |-> m,
                  calls |-> [r \in Ranks |-> MappingProgram(r, v, sp, fp)]]
    /\ mpos = [r \in Ranks |-> 1]
    /\ mchan = [p \in Ranks |-> [q \in Ranks |-> << >>]]
    /\ mbar = [r \in Ranks |-> 0]
    /\ mseen = [r \in Ranks |-> NothingSeen]

\* ---------------------------------------------------------------------------
\* run() under MPI, one rank raising an exception inside the time loop
\* ---------------------------------------------------------------------------

\* one time step of __unsteadyRun() with one sub-iteration of fsiCoupling():
\* the calls that can raise and the barriers between them
TimeStepCalls ==
    << Instr("call", "loop", "preprocessTimeIter"),
       Instr("call", "loop", "FluidSolver.run"),
       Instr("barrier", "loop", "after the fluid solver"),
       Instr("call", "loop", "fluidToSolidMechaTransfer"),
       Instr("barrier", "loop", "after the transfer"),
       Instr("call", "loop", "SolidSolver.run"),
       Instr("barrier", "loop", "after fsiCoupling"),
       Instr("call", "loop", "update") >>

\* the finally block of run()
TeardownCalls ==
    << Instr("barrier", "teardown", "first"),
       Instr("call", "teardown", "exit"),
       Instr("barrier", "teardown", "last") >>

RECURSIVE TimeLoopCalls(_)
TimeLoopCalls(n) == IF n = 0 THEN << >> ELSE TimeStepCalls \o TimeLoopCalls(n - 1)

\* every rank makes the same calls: the time steps, then the teardown
RanksRunInit ==
    /\ \E n \in 1..MaxRunSteps, x \in Ranks :
          mcfg = [method |-> "run", nbTimeIter |-> n, raising |-> x, sendMode |-> "buffered",
                  calls |-> [r \in Ranks |-> TimeLoopCalls(n) \o TeardownCalls]]
    /\ mpos = [r \in Ranks |-> 1]
    /\ mchan = [p \in Ranks |-> [q \in Ranks |-> << >>]]
    /\ mbar = [r \in Ranks |-> 0]
    /\ mseen = [r \in Ranks |-> NothingSeen]

\* ---------------------------------------------------------------------------
\* the quasi-Newton branch of AlgorithmIQN_ILS.fsiCoupling() under MPI, at
\* FSIIter = 0 with the columns of the previous time steps in Vk and Wk
\* ---------------------------------------------------------------------------

\* the interface fields gathered on rank 0, in the order of the calls
IqnGathered ==
    << "res", "solidInterfaceResidual0", "solidInterfaceDisplacement_tilde",
       "solidInterfaceDisplacement_tilde1" >>

\* the calls of rank r: the gathers of the three components of the four
\* fields, the correction on rank 0, the barrier, delta_ds.assemble() and +=
IqnProgram(r) ==
    [i \in 1..12 |-> Instr("gather", IqnGathered[((i - 1) \div 3) + 1], (i - 1) % 3)]
    \o (IF r = 0 THEN << Instr("correct", "iqn", 0) >> ELSE << >>)
    \o << Instr("barrier", "iqn", "back to parallel"), Instr("assembleAdd", "iqn", 0) >>

\* the entry j (from 0) of the one column of dummy_W
WColumn(j) == j + 1

\* delta_ds_loc_X, _Y, _Z of rank 0: np.dot(dummy_W, c).T plus the
\* concatenation of the gathered components of res, split in nDim parts; with
\* nDim = 2 the third part is np.zeros(ns)
DeltaDsLoc(recon, nDim, ns, c) ==
    LET dummy_Res == [j \in 0..(nDim * ns - 1) |-> recon[(j \div ns) + 1][j % ns]]
        sum == [j \in 0..(nDim * ns - 1) |-> WColumn(j) * c + dummy_Res[j]]
        Split(part) == [i \in 0..(ns - 1) |-> sum[part * ns + i]]
    IN << Split(0), Split(1),
          IF nDim = 3 THEN Split(2) ELSE [i \in 0..(ns - 1) |-> 0] >>

\* variant: the loop runs over the local nodes of the rank only
DeltaDsWrites_LocalNodes(myid, loc, len) ==
    LET n == NodesDistribution(mcfg.owners, mcfg.nLoc)[myid] IN
    [g \in {GetGlobalIndex(myid, iVertex) : iVertex \in 0..(n - 1)} |->
        LET iVertex == CHOOSE i \in 0..(n - 1) : GetGlobalIndex(myid, i) = g
        IN << loc[1][iVertex], loc[2][iVertex], loc[3][iVertex] >>]

\* the entries of delta_ds the loop over range(delta_ds_loc_X.shape[0])
\* writes: entry getGlobalIndex('solid', myid, iVertex) gets the values iVertex
DeltaDsWrites(myid, loc, len) ==
    [g \in {GetGlobalIndex(myid, iVertex) : iVertex \in 0..(len - 1)} |->
        LET iVertex == CHOOSE i \in 0..(len - 1) : GetGlobalIndex(myid, i) = g
        IN << loc[1][iVertex], loc[2][iVertex], loc[3][iVertex] >>]

\* the solid interface displacement at the global node g before the update
\* (the same in its three components)
DisplacementBefore(g) == 1000 + 100 * g

IqnInit ==
    /\ \E ow \in {{0}, {NbRanks - 1}, Ranks}, n \in {1, MaxNodes}, md \in {2, 3},
          c \in {-1, 2} :
          mcfg = [method |-> "iqnCorrection", owners |-> ow, nLoc |-> n, nDim |-> 3,
                  managerDim |-> md, c |-> c, sendMode |-> "buffered",
                  calls |-> [r \in Ranks |-> IqnProgram(r)]]
    /\ mpos = [r \in Ranks |-> 1]
    /\ mchan = [p \in Ranks |-> [q \in Ranks |-> << >>]]
    /\ mbar = [r \in Ranks |-> 0]
    /\ mseen = [r \in Ranks |-> NothingSeen]

InitMpi ==
    RunIdle /\ InterpIdle /\ RelaxIdle /\ XferIdle
    /\ (MappingInit \/ RedistInit \/ RanksRunInit \/ IqnInit)

\* the call rank r is at, or a record saying that it has returned
AtInstr(r) ==
    IF mpos[r] <= Len(mcfg.calls[r]) THEN mcfg.calls[r][mpos[r]]
    ELSE Instr("returned", "end", "none")

\* the three messages of one Send X, Y, Z
Triple(ph, donor) ==
    [t \in 1..3 |-> [ph |-> ph, tag |-> t, donor |-> donor, body |-> "coordinates"]]

\* what a receiver keeps of three Recv from src: the loop it is in, the donor
\* it passes to the search or the fill, and the messages it got
Received(instr, msgs) ==
    [ph |-> instr.ph, donor |-> instr.arg,
     msgPh |-> {msgs[t].ph : t \in 1..3},
     msgDonor |-> {msgs[t].donor : t \in 1..3},
     tags |-> [t \in 1..3 |-> msgs[t].tag]]

\* the messages the Send calls of rank r put on the way
OutMessages(r) ==
    IF mcfg.method = "generateMapping" THEN Triple(AtInstr(r).ph, r)
    ELSE RedistMessages(mseen[r].recon, AtInstr(r).arg)

\* the tags of the Recv calls a receiving rank makes, in their order
WantedTags ==
    IF mcfg.method = "generateMapping" THEN << 1, 2, 3 >>
    ELSE [c \in 1..mcfg.nDim |-> c] \o << 101, 102, 103 >>

\* what rank q keeps of the messages its Recv calls took
Deliver(q, msgs) ==
    IF mcfg.method = "generateMapping"
    THEN [mseen EXCEPT ![q].rows = Append(@, Received(AtInstr(q), msgs))]
    ELSE [mseen EXCEPT ![q].result = Unpacked(msgs)]

\* index of the first message with the tag, 0 when there is none
FirstWithTag(chan, tag) ==
    IF \E i \in 1..Len(chan) : chan[i].tag = tag
    THEN CHOOSE i \in 1..Len(chan) :
            chan[i].tag = tag /\ \A j \in 1..(i - 1) : chan[j].tag # tag
    ELSE 0

Without(chan, i) == [j \in 1..(Len(chan) - 1) |-> IF j < i THEN chan[j] ELSE chan[j + 1]]

\* the Recv calls for the tags, each taking the first message with its tag
RECURSIVE TakeTags(_, _)
TakeTags(chan, tags) ==
    IF tags = << >> THEN [ok |-> TRUE, msgs |-> << >>, rest |-> chan]
    ELSE LET i == FirstWithTag(chan, Head(tags)) IN
         IF i = 0 THEN [ok |-> FALSE, msgs |-> << >>, rest |-> chan]
         ELSE LET t == TakeTags(Without(chan, i), Tail(tags)) IN
              [ok |-> t.ok, msgs |-> << chan[i] >> \o t.msgs, rest |-> t.rest]

\* the buffered Send calls of rank r to one rank return at once
MpiSendBuffered(r) ==
    /\ mcfg.sendMode = "buffered"
    /\ AtInstr(r).op = "send"
    /\ LET q == AtInstr(r).arg IN
          mchan' = [mchan EXCEPT ![r][q] = @ \o OutMessages(r)]
    /\ mpos' = [mpos EXCEPT ![r] = @ + 1]
    /\ UNCHANGED << mcfg, mbar, mseen, notMpi >>

\* the Recv calls of rank r from one rank, then what it does with what it got:
\* the search or the fill of the rows with iProc as the donor, or the local
\* arrays and the halo dictionary
MpiRecv(r) ==
    /\ AtInstr(r).op = "recv"
    /\ LET src == AtInstr(r).arg
           t == TakeTags(mchan[src][r], WantedTags)
       IN /\ t.ok
          /\ mchan' = [mchan EXCEPT ![src][r] = t.rest]
          /\ mseen' = Deliver(r, t.msgs)
    /\ mpos' = [mpos EXCEPT ![r] = @ + 1]
    /\ UNCHANGED << mcfg, mbar, notMpi >>

\* the unbuffered Send calls of rank r to one rank return when that rank has
\* posted its Recv from r; the messages go straight to the receiver
MpiSendRendezvous(r) ==
    /\ mcfg.sendMode = "rendezvous"
    /\ AtInstr(r).op = "send"
    /\ LET q == AtInstr(r).arg IN
          /\ AtInstr(q).op = "recv" /\ AtInstr(q).arg = r
          /\ mseen' = Deliver(q, OutMessages(r))
          /\ mpos' = [p \in Ranks |-> IF p \in {r, q} THEN mpos[p] + 1 ELSE mpos[p]]
    /\ UNCHANGED << mcfg, mchan, mbar, notMpi >>

\* rank r enters mpiBarrier: barriers carry no name, the n-th barrier a rank
\* enters is matched with the n-th barrier of every other rank
MpiBarrierEnter(r) ==
    /\ AtInstr(r).op = "barrier"
    /\ ~mseen[r].inBarrier
    /\ mbar' = [mbar EXCEPT ![r] = @ + 1]
    /\ mseen' = [mseen EXCEPT ![r].inBarrier = TRUE,
                              ![r].done = Append(@, << "barrier", AtInstr(r).ph >>)]
    /\ UNCHANGED << mcfg, mpos, mchan, notMpi >>

\* rank r leaves mpiBarrier once every rank has entered it
MpiBarrierLeave(r) ==
    /\ AtInstr(r).op = "barrier"
    /\ mseen[r].inBarrier
    /\ \A q \in Ranks : mbar[q] >= mbar[r]
    /\ mseen' = [mseen EXCEPT ![r].inBarrier = FALSE]
    /\ mpos' = [mpos EXCEPT ![r] = @ + 1]
    /\ UNCHANGED << mcfg, mchan, mbar, notMpi >>

\* a call without communication: fillMatrix, assemble, LinearSolver, mult, solve
MpiLocal(r) ==
    /\ AtInstr(r).op \in {"fillMatrix", "assemble", "solver", "mult", "solve", "call"}
    /\ mseen' = [mseen EXCEPT ![r].done = Append(@, << AtInstr(r).op, AtInstr(r).arg >>)]
    /\ mpos' = [mpos EXCEPT ![r] = @ + 1]
    /\ UNCHANGED << mcfg, mchan, mbar, notMpi >>

\* what rank r has applied the call op to
Did(r, op) == {mseen[r].done[i][2] : i \in {j \in 1..Len(mseen[r].done) : mseen[r].done[j][1] = op}}

\* mpiGatherv of one component to rank 0: the other ranks hand in their part,
\* rank 0 returns with the whole array once every rank has
MpiGather(r) ==
    /\ AtInstr(r).op = "gather"
    /\ LET iDim == AtInstr(r).arg IN
          /\ r = 0 => \A q \in Ranks \ {0} : iDim \in Did(q, "gather")
          /\ mseen' = [mseen EXCEPT
                          ![r].done = Append(@, << "gather", iDim >>),
                          ![r].recon = IF r = 0 THEN @ \o << GatheredArray(iDim) >> ELSE @]
    /\ mpos' = [mpos EXCEPT ![r] = @ + 1]
    /\ UNCHANGED << mcfg, mchan, mbar, notMpi >>

\* a call of the time loop raises on the rank mcfg.raising: the bare except of
\* run() catches the exception and the finally block is entered
MpiRaise(r) ==
    /\ mcfg.method = "run" /\ r = mcfg.raising
    /\ AtInstr(r).op = "call" /\ AtInstr(r).ph = "loop"
    /\ mpos' = [mpos EXCEPT ![r] = Len(mcfg.calls[r]) - Len(TeardownCalls) + 1]
    /\ mseen' = [mseen EXCEPT ![r].done = Append(@, << "raise", AtInstr(r).arg >>)]
    /\ UNCHANGED << mcfg, mchan, mbar, notMpi >>

\* rank 0 computes delta_ds_loc from the gathered res and writes delta_ds
MpiIqnCorrect(r) ==
    /\ AtInstr(r).op = "correct"
    /\ mseen' = [mseen EXCEPT
                    ![r].done = Append(@, << "correct", 0 >>),
                    ![r].delta_ds =
                        DeltaDsWrites(r, DeltaDsLoc(mseen[r].recon, mcfg.managerDim,
                                                    NbGlobalNodes, mcfg.c),
                                      NbGlobalNodes)]
    /\ mpos' = [mpos EXCEPT ![r] = @ + 1]
    /\ UNCHANGED << mcfg, mchan, mbar, notMpi >>

\* delta_ds.assemble() brings the entries written on any rank to rank r, the
\* others are zero; then solidInterfaceDisplacement += delta_ds
MpiAssembleAdd(r) ==
    /\ AtInstr(r).op = "assembleAdd"
    /\ LET Written(g) == {q \in Ranks : g \in DOMAIN mseen[q].delta_ds}
           Entry(g, k) == IF Written(g) = {} THEN 0
                          ELSE mseen[CHOOSE q \in Written(g) : TRUE].delta_ds[g][k]
       IN mseen' = [mseen EXCEPT
                       ![r].done = Append(@, << "assembleAdd", 0 >>),
                       ![r].solidInterfaceDisplacement =
                           [g \in 0..(NbGlobalNodes - 1) |->
                               [k \in 1..3 |-> DisplacementBefore(g) + Entry(g, k)]]]
    /\ mpos' = [mpos EXCEPT ![r] = @ + 1]
    /\ UNCHANGED << mcfg, mchan, mbar, notMpi >>

NextMpi ==
    \E r \in Ranks :
        \/ MpiIqnCorrect(r)
        \/ MpiAssembleAdd(r)
        \/ MpiGather(r)
        \/ MpiRaise(r)
        \/ MpiSendBuffered(r)
        \/ MpiSendRendezvous(r)
        \/ MpiRecv(r)
        \/ MpiBarrierEnter(r)
        \/ MpiBarrierLeave(r)
        \/ MpiLocal(r)

SpecMpi == InitMpi /\ [][NextMpi]_vars

\* ---------------------------------------------------------------------------
\* properties of SpecMpi
\* ---------------------------------------------------------------------------

AllReturned == \A r \in Ranks : AtInstr(r).op = "returned"

UsesAnOperator(r) == Did(r, "solver") \cup Did(r, "mult") \cup Did(r, "solve") # {}

\* C22: on no rank is an operator multiplied, a linear solver built or a
\* system solved before every operator of the variant has been assembled on
\* every rank.
C22_AssembledBeforeUse ==
    mcfg.method = "generateMapping" =>
        \A r \in Ranks :
            UsesAnOperator(r) =>
                \A q \in Ranks : Did(q, "assemble") = OperatorsOf(mcfg.variant)

C22_Witness ==
    /\ mcfg.method = "generateMapping" /\ mcfg.variant = "conservative"
    /\ mcfg.solidProcs = {0} /\ mcfg.fluidProcs = {NbRanks - 1}
    /\ \E r \in Ranks : "A_T" \in Did(r, "solve") /\ AtInstr(r).op = "returned"
    /\ \E q \in Ranks : AtInstr(q).op = "solver" /\ ~UsesAnOperator(q)

\* rank q still has a Send or a Recv of the exchange loop ph to make
InExchange(q, ph) ==
    \E i \in mpos[q]..Len(mcfg.calls[q]) :
        mcfg.calls[q][i].ph = ph /\ mcfg.calls[q][i].op \in {"send", "recv"}

\* how often rank q has received the coordinates of p in the loop ph
TimesReceived(q, ph, p) ==
    Cardinality({i \in 1..Len(mseen[q].rows) :
                    mseen[q].rows[i].ph = ph /\ mseen[q].rows[i].donor = p})

\* C23: in every exchange loop of generateMapping() every receiving rank q
\* gets the three coordinate arrays of every sending rank p once, with the
\* tags 1, 2, 3, and fills its rows with p as the donor; what a receive takes
\* was sent in the same loop by the rank it names; and once q has left the
\* loop for the barrier no message of the loop addressed to q is in flight.
C23_OneTriplePerPair ==
    /\ \A q \in Ranks : \A i \in 1..Len(mseen[q].rows) :
          LET row == mseen[q].rows[i] IN
             /\ row.msgPh = {row.ph}
             /\ row.msgDonor = {row.donor}
             /\ row.tags = << 1, 2, 3 >>
    /\ mcfg.method = "generateMapping" =>
       LET loops == ExchangeLoops(mcfg.variant, mcfg.solidProcs, mcfg.fluidProcs) IN
          \A k \in 1..Len(loops) : \A p \in Ranks, q \in Ranks :
             LET pair == p \in loops[k].senders /\ q \in loops[k].receivers
                 n == TimesReceived(q, loops[k].name, p)
             IN /\ n <= 1
                /\ ~pair => n = 0
                /\ (pair /\ ~InExchange(q, loops[k].name)) => n = 1
    /\ \A p \in Ranks, q \in Ranks : \A i \in 1..Len(mchan[p][q]) :
          InExchange(q, mchan[p][q][i].ph)

C23_Witness ==
    /\ AllReturned /\ mcfg.method = "generateMapping"
    /\ mcfg.variant = "consistent" /\ mcfg.sendMode = "buffered"
    /\ mcfg.solidProcs = Ranks /\ mcfg.fluidProcs = Ranks
    /\ \A q \in Ranks : Len(mseen[q].rows) = 3 * NbRanks

\* C24: redistribution hands to every owning rank p, for every component, the
\* values of the gathered array at the global indices start_p, start_p + 1,
\* ... in the order of its local vertices, which are the values the getter of
\* rank p wrote from these vertices, and a halo dictionary whose keys are the
\* halo nodes of p and whose values are rows of three numbers holding the
\* field at the node (the three components, or the one component repeated);
\* a rank that owns nothing returns (None, {}).
C24_RedistributesOwnRange ==
    mcfg.method = "redistribute" =>
        \A p \in Ranks : AtInstr(p).op = "returned" =>
            LET res == mseen[p].result
                gathered == mseen[0].recon
            IN IF p \notin mcfg.owners THEN res = [arrays |-> "None", halo |-> << >>]
               ELSE /\ Len(res.arrays) = mcfg.nDim
                    /\ \A c \in 1..mcfg.nDim :
                          /\ DOMAIN res.arrays[c] = 0..(mcfg.nLoc - 1)
                          /\ \A i \in 0..(mcfg.nLoc - 1) :
                                /\ res.arrays[c][i] =
                                      gathered[c][NodesBefore(mcfg.owners, mcfg.nLoc, p) + i]
                                /\ res.arrays[c][i] = 100 * (p + 1) + 10 * i + (c - 1)
                    /\ DOMAIN res.halo =
                          IF mcfg.withHalo
                          THEN {50 + NodesBefore(mcfg.owners, mcfg.nLoc, q) : q \in mcfg.owners \ {p}}
                          ELSE {}
                    /\ \A key \in DOMAIN res.halo :
                          /\ Len(res.halo[key]) = 3
                          /\ \A c \in 1..3 :
                                res.halo[key][c] =
                                    gathered[IF mcfg.nDim = 3 THEN c ELSE 1][key - 50]

C24_Witness ==
    /\ mcfg.method = "redistribute" /\ AllReturned
    /\ mcfg.owners = Ranks /\ mcfg.nDim = 3 /\ mcfg.nLoc = MaxNodes /\ mcfg.withHalo
    /\ \A p \in Ranks : DOMAIN mseen[p].result.halo # {}

\* the barriers rank r has entered, in their order
BarriersEntered(r) ==
    LET IsBarrier(e) == e[1] = "barrier" IN SelectSeq(mseen[r].done, IsBarrier)

\* C27: when one rank raises inside the time loop, every rank still reaches
\* the teardown and returns: as long as a rank has not returned some rank can
\* take a step, and the n-th barrier of one rank is never a barrier of the
\* teardown while the n-th barrier of another rank is one of the time loop.
C27_AllRanksReachTeardown ==
    mcfg.method = "run" =>
        /\ AllReturned \/ ENABLED NextMpi
        /\ \A p \in Ranks, q \in Ranks :
              \A n \in 1..Min(Len(BarriersEntered(p)), Len(BarriersEntered(q))) :
                 BarriersEntered(p)[n][2] = BarriersEntered(q)[n][2]

\* C30: the exchanges complete on every rank also when a Send returns only
\* once the matching Recv is posted: as long as a rank has not returned, some
\* rank can take a step.
C30_ExchangesComplete ==
    mcfg.method \in {"generateMapping", "redistribute"} =>
        (AllReturned \/ ENABLED NextMpi)

\* ---------------------------------------------------------------------------
\* the transfers of an interpolator, one component of the fields, one process
\* ---------------------------------------------------------------------------

\* the values a solver may give at a node
NodeValues == {-1, 2}

RECURSIVE SumTo(_, _)
SumTo(f, n) == IF n = 0 THEN 0 ELSE f[n] + SumTo(f, n - 1)

\* FlexInterfaceData.dot for one component
FieldDot(u, w) == SumTo([i \in 1..Len(u) |-> u[i] * w[i]], Len(u))

\* InterfaceMatrix.mult
Mult(M, u) == [i \in 1..Len(M) |-> FieldDot(M[i], u)]

Transpose(M) == [j \in 1..Len(M[1]) |-> [i \in 1..Len(M) |-> M[i][j]]]

\* the matrix with a one in the row i at the column map[i]
MatrixOfMap(map) == [i \in 1..Len(map) |-> [j \in 1..Len(map) |-> IF map[i] = j THEN 1 ELSE 0]]

\* the unit matrix with one more one at the row i and the column j
Elementary(n, i, j) ==
    [k \in 1..n |-> [l \in 1..n |-> IF k = l \/ (k = i /\ l = j) THEN 1 ELSE 0]]

WithoutRowCol(M, i, j) ==
    [k \in 1..(Len(M) - 1) |-> [l \in 1..(Len(M) - 1) |->
        M[IF k < i THEN k ELSE k + 1][IF l < j THEN l ELSE l + 1]]]

RECURSIVE Det(_)
Det(M) ==
    IF Len(M) = 1 THEN M[1][1]
    ELSE SumTo([j \in 1..Len(M) |->
                   (IF j % 2 = 1 THEN 1 ELSE -1) * M[1][j] * Det(WithoutRowCol(M, 1, j))],
               Len(M))

\* LinearSolver.solve: the field x with M x = u
Solve(M, u) ==
    [k \in 1..Len(M) |->
        Det([i \in 1..Len(M) |-> [j \in 1..Len(M) |-> IF j = k THEN u[i] ELSE M[i][j]]])
            \div Det(M)]

\* the solid node the search matches with the fluid node at the position x
MatchingSearch(solidX, x) == CHOOSE j \in 1..Len(solidX) : solidX[j] = x

InterpolateSolidToFluid_Transposed(solidData) ==
    IF tcfg.variant = "matching" THEN Mult(tcfg.H_T, solidData)
    ELSE Mult(tcfg.B, Solve(tcfg.A, solidData))

InterpolateSolidToFluid(solidData) ==
    IF tcfg.variant = "matching" THEN Mult(tcfg.H, solidData)
    ELSE Mult(tcfg.B, Solve(tcfg.A, solidData))

InterpolateFluidToSolid_SolverA(fluidData) ==
    IF tcfg.variant = "matching" THEN Mult(tcfg.H_T, fluidData)
    ELSE Solve(tcfg.A, Mult(tcfg.B_T, fluidData))

InterpolateFluidToSolid(fluidData) ==
    IF tcfg.variant = "matching" THEN Mult(tcfg.H_T, fluidData)
    ELSE Solve(tcfg.A_T, Mult(tcfg.B_T, fluidData))

\* an interpolator with its operators built, and the fields of both sides
TransferInit ==
    \E n \in 1..MaxNodes :
    \E map \in [1..n -> 1..n], i \in 1..n, j \in 1..n,
       loads \in [1..n -> NodeValues], disp \in [1..n -> NodeValues], v \in {"matching", "conservative"} :
        /\ v = "matching" => (i = 1 /\ j = 1)
        /\ tcfg = [mode |-> "transfer", variant |-> v,
                   H |-> MatrixOfMap(map), H_T |-> Transpose(MatrixOfMap(map)),
                   A |-> Elementary(n, i, j), A_T |-> Transpose(Elementary(n, i, j)),
                   B |-> MatrixOfMap(map), B_T |-> Transpose(MatrixOfMap(map))]
        /\ tfld = [pc |-> "built", solidInterfaceDisplacement |-> disp,
                   fluidInterfaceLoads |-> loads,
                   fluidInterfaceDisplacement |-> << >>, solidInterfaceLoads |-> << >>,
                   applied |-> << >>]

\* the positions of the three nodes of the solid side
ScenarioNodes == << 0, 1, 2 >>

\* two solvers on the same three nodes, the fluid solver numbering them in any
\* order; static relaxation with omegaMax = 1, one time step with one
\* sub-iteration
ScenarioInit ==
    \E fluidX \in [1..3 -> {0, 1, 2}], d0 \in [1..3 -> NodeValues], d1 \in [1..3 -> NodeValues],
       vel \in {0, 2}, unsteady \in BOOLEAN, thr \in {-1, 0} :
        /\ \A x \in {0, 1, 2} : \E i \in 1..3 : fluidX[i] = x
        /\ LET map == [i \in 1..3 |-> MatchingSearch(ScenarioNodes, fluidX[i])] IN
           tcfg = [mode |-> "scenario", variant |-> "matching",
                   H |-> MatrixOfMap(map), H_T |-> Transpose(MatrixOfMap(map)),
                   fluidX |-> fluidX, unsteady |-> unsteady, timeIterTreshold |-> thr,
                   omegaMax |-> 1, initial |-> d0, computed |-> d1, velocity |-> vel]
        /\ tfld = [pc |-> "initial_conditions",
                   solidInterfaceDisplacement |-> [i \in 1..3 |-> 0],
                   fluidInterfaceLoads |-> [i \in 1..3 |-> 0],
                   fluidInterfaceDisplacement |-> [i \in 1..3 |-> 0],
                   solidInterfaceLoads |-> [i \in 1..3 |-> 0],
                   applied |-> << >>]

\* an interpolator of a hFTB / hFFB coupling before
\* setRobinHeatFluxToSolidSolver(time): the solid solver's temperatures, the
\* Robin temperature interpolated on the solid mesh, the coefficient (a Python
\* float as the default 1.0, or an int) and whether a communicator is given
RobinInit ==
    \E n \in 1..MaxNodes :
    \E Ts \in [1..n -> NodeValues], Tr \in [1..n -> NodeValues],
       ty \in {"float", "int"}, v \in {1, 2}, mpi \in BOOLEAN, t \in {DeltaT} :
        /\ tcfg = [mode |-> "robin", mpiComm |-> mpi, time |-> t,
                   heatTransferCoeff |-> [type |-> ty, value |-> v],
                   nodalTemperatures |-> Ts, solidInterfaceRobinTemperature |-> Tr]
        /\ tfld = [pc |-> "set_robin", applied |-> << >>, raised |-> "none"]

\* ---------------------------------------------------------------------------
\* node counts of the interface fields and of the operators applied to them
\* ---------------------------------------------------------------------------

InterpolatorVariants == {"matching", "conservative", "consistent"}

\* self.d: 0 in InterfaceInterpolator.__init__, nDim + 1 in the constructors
\* of ConservativeInterpolator and ConsistentInterpolator
NbExtra(variant, nDim) == IF variant = "matching" THEN 0 ELSE nDim + 1

\* the node count generateInterfaceData() of the variant gives to the field
FieldNodes(variant, method, name, nf, ns, d) ==
    CASE variant = "matching" ->
           (IF name \in {"fluidInterfaceDisplacement", "fluidInterfaceLoads",
                         "fluidInterfaceTemperature", "fluidInterfaceHeatFlux",
                         "fluidInterfaceNormalHeatFlux", "fluidInterfaceRobinTemperature"}
            THEN nf ELSE ns)
      [] variant = "conservative" ->
           (CASE name \in {"fluidInterfaceDisplacement", "fluidInterfaceLoads",
                           "fluidInterfaceTemperature", "fluidInterfaceHeatFlux",
                           "fluidInterfaceNormalHeatFlux",
                           "fluidInterfaceRobinTemperature"} -> nf
              [] name \in {"solidInterfaceNormalHeatFlux",
                           "solidInterfaceRobinTemperature"} -> ns
              [] OTHER -> ns + d)
      [] OTHER ->
           (CASE name = "solidInterfaceDisplacement" -> ns + d
              [] name = "fluidInterfaceDisplacement" -> nf
              [] name = "solidInterfaceLoads" -> ns
              [] name = "fluidInterfaceLoads" -> nf + d
              [] name = "solidInterfaceTemperature" ->
                    (IF method = "TFFB" THEN ns ELSE ns + d)
              [] name = "fluidInterfaceTemperature" ->
                    (IF method = "TFFB" THEN nf + d ELSE nf)
              [] name = "solidInterfaceHeatFlux" ->
                    (IF method = "FFTB" THEN ns ELSE ns + d)
              [] name = "fluidInterfaceHeatFlux" ->
                    (IF method = "FFTB" THEN nf + d ELSE nf)
              [] name \in {"fluidInterfaceNormalHeatFlux",
                           "fluidInterfaceRobinTemperature"} -> nf + d
              [] OTHER -> ns)

\* interpolateFluidToSolid / interpolateSolidToFluid of the variant: the
\* column count of the first operator applied to the input and the row count
\* of the last operator (or solve), which writes the output
Chain(variant, dir, nf, ns, d) ==
    CASE variant = "matching" /\ dir = "fluidToSolid" -> [cols |-> nf, rows |-> ns]
      [] variant = "matching" /\ dir = "solidToFluid" -> [cols |-> ns, rows |-> nf]
      [] variant = "conservative" /\ dir = "fluidToSolid" -> [cols |-> nf, rows |-> ns + d]
      [] variant = "consistent" /\ dir = "fluidToSolid" -> [cols |-> nf + d, rows |-> ns]
      [] OTHER -> [cols |-> ns + d, rows |-> nf]

\* the (input, output) fields of the interpolateFluidToSolid calls of
\* fluidToSolidThermalTransfer()
FluidToSolidThermalPairs(method) ==
    CASE method = "TFFB" -> << << "fluidInterfaceTemperature", "solidInterfaceTemperature" >> >>
      [] method = "FFTB" ->
            << << "fluidInterfaceHeatFlux", "solidInterfaceHeatFlux" >>,
               << "fluidInterfaceNormalHeatFlux", "solidInterfaceNormalHeatFlux" >> >>
      [] method \in {"hFFB", "hFTB"} ->
            << << "fluidInterfaceRobinTemperature", "solidInterfaceRobinTemperature" >> >>
      [] OTHER -> << >>

\* the (input, output) fields of the interpolateSolidToFluid call of
\* solidToFluidThermalTransfer()
SolidToFluidThermalPairs(method) ==
    CASE method \in {"TFFB", "hFFB"} ->
            << << "solidInterfaceHeatFlux", "fluidInterfaceHeatFlux" >> >>
      [] method \in {"FFTB", "hFTB"} ->
            << << "solidInterfaceTemperature", "fluidInterfaceTemperature" >> >>
      [] OTHER -> << >>

\* the interpolator field computeSolidInterfaceResidual_CHT() subtracts from
\* the solid solver's values
ResidualFieldCHT(method) ==
    CASE method \in {"hFFB", "TFFB"} -> "solidInterfaceHeatFlux"
      [] method \in {"hFTB", "FFTB"} -> "solidInterfaceTemperature"
      [] OTHER -> "None"

\* variant: the temperature is relaxed where the heat flux is the residual
RelaxedFieldCHT_Swapped(method) ==
    CASE method \in {"hFFB", "TFFB"} -> "solidInterfaceTemperature"
      [] method \in {"hFTB", "FFTB"} -> "solidInterfaceHeatFlux"
      [] OTHER -> "None"

\* the interpolator field relaxCHT() adds the residual to
RelaxedFieldCHT(method) ==
    CASE method \in {"hFFB", "TFFB"} -> "solidInterfaceHeatFlux"
      [] method \in {"hFTB", "FFTB"} -> "solidInterfaceTemperature"
      [] OTHER -> "None"

\* the fields the algorithm combines in a coupled sub-iteration, with the
\* node counts they were created with: Algorithm.__init__ and
\* computeSolidInterfaceResidual() use ns + d, AlgorithmBGSAitkenRelax.__init__
\* and the locals of AlgorithmIQN_ILS.fsiCoupling() use ns
CombinedFields(algo, nSolidDisp, ns, d) ==
    LET Pair(op, left, nLeft, right, nRight) ==
            [op |-> op, left |-> left, nLeft |-> nLeft, right |-> right, nRight |-> nRight]
    IN << Pair("subtract", "predictedDisplacement", ns + d,
               "solidInterfaceDisplacement", nSolidDisp),
          Pair("subtract", "solidInterfaceResidual", ns + d,
               "solidInterfaceResidualkM1", ns),
          Pair("dot", "deltaInterfaceResidual", ns + d, "solidInterfaceResidualkM1", ns),
          Pair("copy", "solidInterfaceResidual", ns + d, "solidInterfaceResidualkM1", ns),
          Pair("add", "solidInterfaceDisplacement", nSolidDisp,
               "solidInterfaceResidual", ns + d) >>
       \o (IF algo # "IQN_ILS" THEN << >>
           ELSE << Pair("gather", "res", ns + d, "gathered size", ns),
                   Pair("copy", "res", ns + d, "solidInterfaceResidual0", ns),
                   Pair("copy", "solidInterfaceDisplacement_tilde", ns,
                        "solidInterfaceDisplacement_tilde1", ns),
                   Pair("add", "solidInterfaceDisplacement", nSolidDisp, "delta_ds", ns) >>)

\* an interpolator and an algorithm about to be constructed
SizesInit ==
    \E v \in InterpolatorVariants, method \in ChtMethods \cup {"None"},
       n \in {1, MaxNodes}, more \in {0, 1}, nd \in {2, 3}, a \in {"BGSAitken", "IQN_ILS"} :
        /\ v = "matching" => more = 0
        /\ a = "IQN_ILS" => method = "None"
        /\ tcfg = [mode |-> "sizes", variant |-> v, chtTransferMethod |-> method,
                   nf |-> n + more, ns |-> n, nDim |-> nd, d |-> NbExtra(v, nd), algo |-> a]
        /\ tfld = [pc |-> "generateInterfaceData", allocated |-> << >>,
                   interpolated |-> << >>, combined |-> << >>,
                   residual |-> "None", relaxed |-> "None"]

InitTransfer ==
    RunIdle /\ InterpIdle /\ RelaxIdle /\ MpiIdle
    /\ (TransferInit \/ ScenarioInit \/ RobinInit \/ SizesInit)

\* generateInterfaceData(): the fields, each with its node count
SizesGenerateInterfaceData ==
    /\ tcfg.mode = "sizes" /\ tfld.pc = "generateInterfaceData"
    /\ tfld' = [tfld EXCEPT
                   !.pc = "fluidToSolid",
                   !.allocated =
                       [name \in FieldsFor(TRUE, tcfg.chtTransferMethod # "None",
                                           tcfg.chtTransferMethod) |->
                           FieldNodes(tcfg.variant, tcfg.chtTransferMethod, name,
                                      tcfg.nf, tcfg.ns, tcfg.d)]]
    /\ UNCHANGED << tcfg, notXfer >>

\* what a call of interpolateFluidToSolid / interpolateSolidToFluid is given
\* and what its operators take and give
Interpolated(dir, pair) ==
    [dir |-> dir, input |-> pair[1], output |-> pair[2],
     nIn |-> tfld.allocated[pair[1]], nOut |-> tfld.allocated[pair[2]],
     chain |-> Chain(tcfg.variant, dir, tcfg.nf, tcfg.ns, tcfg.d)]

\* fluidToSolidMechaTransfer() and fluidToSolidThermalTransfer(): the
\* interpolations of the loads and of the thermal fields
SizesFluidToSolid ==
    /\ tcfg.mode = "sizes" /\ tfld.pc = "fluidToSolid"
    /\ LET pairs == << << "fluidInterfaceLoads", "solidInterfaceLoads" >> >>
                    \o FluidToSolidThermalPairs(tcfg.chtTransferMethod)
       IN tfld' = [tfld EXCEPT
                      !.pc = "residual",
                      !.interpolated =
                          @ \o [i \in 1..Len(pairs) |-> Interpolated("fluidToSolid", pairs[i])]]
    /\ UNCHANGED << tcfg, notXfer >>

\* the residuals, relaxSolidPosition() with the Aitken setOmega(), relaxCHT()
\* and the quasi-Newton update
SizesResidualAndRelax ==
    /\ tcfg.mode = "sizes" /\ tfld.pc = "residual"
    /\ tfld' = [tfld EXCEPT
                   !.pc = "solidToFluid",
                   !.residual = ResidualFieldCHT(tcfg.chtTransferMethod),
                   !.relaxed = RelaxedFieldCHT(tcfg.chtTransferMethod),
                   !.combined = CombinedFields(tcfg.algo,
                                               tfld.allocated["solidInterfaceDisplacement"],
                                               tcfg.ns, tcfg.d)]
    /\ UNCHANGED << tcfg, notXfer >>

\* solidToFluidMechaTransfer() and solidToFluidThermalTransfer() of the next
\* sub-iteration
SizesSolidToFluid ==
    /\ tcfg.mode = "sizes" /\ tfld.pc = "solidToFluid"
    /\ LET pairs == << << "solidInterfaceDisplacement", "fluidInterfaceDisplacement" >> >>
                    \o SolidToFluidThermalPairs(tcfg.chtTransferMethod)
       IN tfld' = [tfld EXCEPT
                      !.pc = "done",
                      !.interpolated =
                          @ \o [i \in 1..Len(pairs) |-> Interpolated("solidToFluid", pairs[i])]]
    /\ UNCHANGED << tcfg, notXfer >>

\* Python's coeff * x: a number times an array multiplies every entry; an int
\* times a tuple repeats the tuple; a float times a tuple raises TypeError
PyTimes(coeff, x) ==
    IF x.kind = "array"
    THEN [kind |-> "array", data |-> [i \in 1..Len(x.data) |-> coeff.value * x.data[i]]]
    ELSE IF coeff.type = "int"
    THEN [kind |-> "tuple",
          data |-> [i \in 1..(coeff.value * Len(x.data)) |->
                       x.data[((i - 1) % Len(x.data)) + 1]]]
    ELSE [kind |-> "TypeError", data |-> << >>]

\* setRobinHeatFluxToSolidSolver(time) on a process of the solid interface:
\* with a communicator the product is taken with the difference of the two
\* arrays, without one with the tuple (difference, time)
SetRobinHeatFluxToSolidSolver ==
    /\ tcfg.mode = "robin" /\ tfld.pc = "set_robin"
    /\ LET difference == [kind |-> "array",
                          data |-> [i \in 1..Len(tcfg.nodalTemperatures) |->
                                       tcfg.nodalTemperatures[i]
                                           - tcfg.solidInterfaceRobinTemperature[i]]]
           localSolidInterfaceRobinHeatFlux ==
               IF tcfg.mpiComm
               THEN PyTimes(tcfg.heatTransferCoeff, difference)
               ELSE PyTimes(tcfg.heatTransferCoeff,
                            [kind |-> "tuple", data |-> << difference, tcfg.time >>])
       IN tfld' = IF localSolidInterfaceRobinHeatFlux.kind = "TypeError"
                  THEN [tfld EXCEPT !.pc = "done", !.raised = "TypeError"]
                  ELSE [tfld EXCEPT !.pc = "done",
                                    !.applied = << localSolidInterfaceRobinHeatFlux, tcfg.time >>]
    /\ UNCHANGED << tcfg, notXfer >>

InterpolateSolidDisplacementOnFluidMesh ==
    /\ tcfg.mode = "transfer" /\ tfld.fluidInterfaceDisplacement = << >>
    /\ tfld' = [tfld EXCEPT !.fluidInterfaceDisplacement =
                    InterpolateSolidToFluid(tfld.solidInterfaceDisplacement)]
    /\ UNCHANGED << tcfg, notXfer >>

InterpolateFluidLoadsOnSolidMesh ==
    /\ tcfg.mode = "transfer" /\ tfld.solidInterfaceLoads = << >>
    /\ tfld' = [tfld EXCEPT !.solidInterfaceLoads =
                    InterpolateFluidToSolid(tfld.fluidInterfaceLoads)]
    /\ UNCHANGED << tcfg, notXfer >>

\* setFSIInitialConditions(): in an unsteady computation the initial
\* displacement of the solid solver is read, interpolated and given to the
\* fluid solver
ScenarioInitialConditions ==
    /\ tcfg.mode = "scenario" /\ tfld.pc = "initial_conditions"
    /\ tfld' = IF tcfg.unsteady
               THEN [tfld EXCEPT !.pc = "transfer",
                                 !.solidInterfaceDisplacement = tcfg.initial,
                                 !.fluidInterfaceDisplacement = InterpolateSolidToFluid(tcfg.initial),
                                 !.applied = InterpolateSolidToFluid(tcfg.initial)]
               ELSE [tfld EXCEPT !.pc = "transfer"]
    /\ UNCHANGED << tcfg, notXfer >>

\* solidToFluidMechaTransfer() of the sub-iteration
ScenarioSolidToFluid ==
    /\ tcfg.mode = "scenario" /\ tfld.pc = "transfer"
    /\ tfld' = [tfld EXCEPT
                   !.pc = "solvers",
                   !.fluidInterfaceDisplacement = InterpolateSolidToFluid(tfld.solidInterfaceDisplacement),
                   !.applied = InterpolateSolidToFluid(tfld.solidInterfaceDisplacement)]
    /\ UNCHANGED << tcfg, notXfer >>

\* the rest of the sub-iteration and of the time step: past the threshold the
\* solid solver runs and the interface displacement is relaxed with omegaMax;
\* at the end of an unsteady step from the threshold on the predictor is
\* added
ScenarioSolveAndRelax ==
    /\ tcfg.mode = "scenario" /\ tfld.pc = "solvers"
    /\ LET timeIter0 == IF tcfg.unsteady THEN 0 ELSE 1
           old == tfld.solidInterfaceDisplacement
           relaxed == IF timeIter0 > tcfg.timeIterTreshold
                      THEN [i \in 1..3 |-> old[i] + tcfg.omegaMax * (tcfg.computed[i] - old[i])]
                      ELSE old
           predicted == IF tcfg.unsteady /\ timeIter0 >= tcfg.timeIterTreshold
                        THEN [i \in 1..3 |-> relaxed[i] + DeltaT * tcfg.velocity
                                                + DeltaT * ((tcfg.velocity - 0) \div 2)]
                        ELSE relaxed
       IN tfld' = [tfld EXCEPT !.pc = "done", !.solidInterfaceDisplacement = predicted]
    /\ UNCHANGED << tcfg, notXfer >>

NextTransfer ==
    \/ SizesGenerateInterfaceData
    \/ SizesFluidToSolid
    \/ SizesResidualAndRelax
    \/ SizesSolidToFluid
    \/ SetRobinHeatFluxToSolidSolver
    \/ InterpolateSolidDisplacementOnFluidMesh
    \/ InterpolateFluidLoadsOnSolidMesh
    \/ ScenarioInitialConditions
    \/ ScenarioSolidToFluid
    \/ ScenarioSolveAndRelax

SpecTransfer == InitTransfer /\ [][NextTransfer]_vars

\* ---------------------------------------------------------------------------
\* properties of SpecTransfer
\* ---------------------------------------------------------------------------

\* C25: for the matching and the conservative interpolator the virtual work is
\* the same on both sides of the interface: dot(solid loads, solid
\* displacement) = dot(fluid loads, fluid displacement), the solid loads and
\* the fluid displacement being the results of the two interpolations.
C25_VirtualWorkConserved ==
    (tcfg.mode = "transfer" /\ tfld.fluidInterfaceDisplacement # << >>
        /\ tfld.solidInterfaceLoads # << >>) =>
        FieldDot(tfld.solidInterfaceLoads, tfld.solidInterfaceDisplacement)
            = FieldDot(tfld.fluidInterfaceLoads, tfld.fluidInterfaceDisplacement)

C25_Witness ==
    /\ tcfg.mode = "transfer" /\ tcfg.variant = "conservative"
    /\ tcfg.A # Transpose(tcfg.A) /\ tcfg.B # tcfg.A
    /\ tfld.fluidInterfaceDisplacement # << >> /\ tfld.solidInterfaceLoads # << >>
    /\ tfld.solidInterfaceLoads # tfld.fluidInterfaceLoads
    /\ FieldDot(tfld.solidInterfaceLoads, tfld.solidInterfaceDisplacement) # 0

\* the fluid solver holds, at each of its nodes, the displacement the solid
\* interface has at the node with the same position
SameDisplacement ==
    \A i \in 1..3, j \in 1..3 :
        tcfg.fluidX[i] = ScenarioNodes[j] =>
            tfld.applied[i] = tfld.solidInterfaceDisplacement[j]

\* C26: on three identical nodes, with omegaMax = 1, one time step and one
\* sub-iteration, what is applied to the fluid solver is the solid interface
\* displacement at every node: at each transfer, and still at the end of the
\* step when the solid solver gives the displacement it started from and does
\* not move.
C26_DisplacementFedThrough ==
    tcfg.mode = "scenario" =>
        /\ tfld.pc = "solvers" => SameDisplacement
        /\ (tfld.pc = "transfer" /\ tcfg.unsteady) => SameDisplacement
        /\ (tfld.pc = "done" /\ tcfg.unsteady /\ tcfg.computed = tcfg.initial
                /\ tcfg.velocity = 0) => SameDisplacement

C26_Witness ==
    /\ tcfg.mode = "scenario" /\ tfld.pc = "done" /\ tcfg.unsteady
    /\ tcfg.timeIterTreshold = -1
    /\ tcfg.computed = tcfg.initial /\ tcfg.velocity = 0
    /\ tcfg.fluidX = << 2, 0, 1 >> /\ tcfg.initial = << -1, 2, 2 >>
    /\ tfld.applied = << 2, -1, 2 >>

\* ------------------------------------------- properties of Spec (uncoupled steps)
\* the calls of a sub-iteration that follow the fluid run when the step is
\* coupled: transfers to the solid, the solid run, the residuals and the
\* update of the solid interface fields
SolidSideOps ==
    {"getLoadsFromFluidSolver", "interpolateFluidLoadsOnSolidMesh",
     "setLoadsToSolidSolver", "fluidToSolidThermalTransfer", "SolidSolver.run",
     "computeSolidInterfaceResidual", "computeSolidInterfaceResidual_CHT",
     "relaxSolidPosition", "relaxCHT", "iqnCorrection"}

\* positions of the part of the loop body that follows the fluid run
SolidSidePcs == {"f2s_mecha", "f2s_thermal", "solid_run", "residual", "relax"}

\* C35: for every algorithm, a fsiCoupling call with timeIter <=
\* timeIterTreshold executes exactly one sub-iteration, in which the fluid
\* solver runs and none of the solid-side calls is made (no load or thermal
\* transfer to the solid, no solid run, no residual, no relaxation or
\* quasi-Newton update of the solid interface displacement), and FSIConv
\* stays False. On a rank hosting the solid solver, the last sub-iteration of
\* a completed call ran the solid solver if and only if timeIter >
\* timeIterTreshold.
C35_UncoupledStepFluidOnly ==
    pc \in CallPcs =>
        /\ timeIter <= conf.timeIterTreshold =>
              /\ nSub <= 1
              /\ ~FSIConv
              /\ pc \notin SolidSidePcs
              /\ \A i \in 1..Len(subOps) : subOps[i] \notin SolidSideOps
              /\ pc \in {"sub_end", "fsi_end"} => Has(subOps, "FluidSolver.run")
              /\ pc = "fsi_end" => (nSub = 1 /\ FSIIter = 1)
        /\ (pc = "fsi_end" /\ conf.hostsSolid) =>
              (Has(subOps, "SolidSolver.run") <=> timeIter > conf.timeIterTreshold)

C35_Witness ==
    /\ conf.algo = "IQN_ILS" /\ conf.computationType = "unsteady"
    /\ conf.timeIterTreshold = MaxTreshold /\ timeIter = MaxTreshold
    /\ conf.nbFSIIterMax = MaxIter
    /\ pc = "fsi_end" /\ nSub = 1 /\ Has(subOps, "FluidSolver.run")

StepColumns(t, n, firstIt) ==
    [i \in 1..n |-> << t, n - i + 1, IF firstIt THEN 0 ELSE n - i >>]

C38_FlagsMeanEmptyHistory ==
    conf.algo = "IQN_ILS" =>
        /\ (maxNbOfItReached \/ convergenceReachedInOneIt) => (V = << >> /\ W = << >>)
        /\ (nonRoot.maxNbOfItReached \/ nonRoot.convergenceReachedInOneIt) =>
              (nonRoot.V = << >> /\ nonRoot.W = << >>)
        /\ nonRoot.maxNbOfItReached = maxNbOfItReached
        /\ nonRoot.convergenceReachedInOneIt = convergenceReachedInOneIt
        /\ Len(nonRoot.V) = Len(V) /\ Len(nonRoot.W) = Len(W) /\ Len(V) = Len(W)
        /\ pc = "relax" =>
              ((\/ /\ FSIIter = 0
                   /\ \/ conf.nbTimeToKeep = 0
                      \/ nonRoot.maxNbOfItReached \/ nonRoot.convergenceReachedInOneIt
                      \/ timeIter = 1
                \/ timeIter < 1)
               <=> TakesRelaxation)

C38_Witness ==
    /\ conf.algo = "IQN_ILS" /\ pc = "relax" /\ timeIter = 3 /\ FSIIter = 0
    /\ convergenceReachedInOneIt /\ maxNbOfItReached
    /\ nonRoot.convergenceReachedInOneIt /\ nonRoot.maxNbOfItReached
    /\ V = << >> /\ TakesRelaxation

\* ------------------------------------ properties of SpecTransfer (Robin heat flux)
\* C37: with and without a communicator setRobinHeatFluxToSolidSolver() does
\* not raise and passes to applyNodalNormalHeatFluxes the array of the values
\* heatTransferCoeff * (T_solid - T_robin), with the time.
C37_RobinFluxOnBothPaths ==
    (tcfg.mode = "robin" /\ tfld.pc = "done") =>
        /\ tfld.raised = "none"
        /\ tfld.applied =
              << [kind |-> "array",
                  data |-> [i \in 1..Len(tcfg.nodalTemperatures) |->
                               tcfg.heatTransferCoeff.value
                                   * (tcfg.nodalTemperatures[i]
                                        - tcfg.solidInterfaceRobinTemperature[i])]],
                 tcfg.time >>

\* ------------------------------------ properties of SpecTransfer (node counts)
\* C32: every field given to interpolateFluidToSolid or interpolateSolidToFluid
\* as the input has as many nodes as the first operator of the chain has
\* columns, and every field given as the output as many as the last operator
\* (or solve) has rows, for every variant and every CHT transfer method.
C32_FieldsFitOperators ==
    tcfg.mode = "sizes" =>
        \A i \in 1..Len(tfld.interpolated) :
            /\ tfld.interpolated[i].nIn = tfld.interpolated[i].chain.cols
            /\ tfld.interpolated[i].nOut = tfld.interpolated[i].chain.rows

\* C33: in AlgorithmBGSAitkenRelax and AlgorithmIQN_ILS the two fields of
\* every subtraction, dot product, copy, addition and gather have the same
\* node count, ns + d, for every interpolator variant.
C33_CombinedFieldsSameSize ==
    tcfg.mode = "sizes" =>
        \A i \in 1..Len(tfld.combined) :
            /\ tfld.combined[i].nLeft = tfld.combined[i].nRight
            /\ tfld.combined[i].nLeft = tcfg.ns + tcfg.d

\* C36: for each CHT transfer method the field of the thermal residual, the
\* field relaxCHT() updates and the field interpolated from the solid to the
\* fluid are one solid-side field, the heat flux for TFFB and hFFB and the
\* temperature for FFTB and hFTB; generateInterfaceData() of every variant
\* has allocated it, and no fluid-to-solid interpolation writes it.
C36_OneThermalQuantity ==
    (tcfg.mode = "sizes" /\ tcfg.chtTransferMethod # "None" /\ tfld.pc = "done") =>
        LET quantity == IF tcfg.chtTransferMethod \in {"TFFB", "hFFB"}
                        THEN "solidInterfaceHeatFlux" ELSE "solidInterfaceTemperature"
        IN /\ tfld.residual = quantity
           /\ tfld.relaxed = quantity
           /\ \E i \in 1..Len(tfld.interpolated) :
                 /\ tfld.interpolated[i].dir = "solidToFluid"
                 /\ tfld.interpolated[i].input = quantity
           /\ \A i \in 1..Len(tfld.interpolated) :
                 /\ (tfld.interpolated[i].dir = "solidToFluid"
                        /\ tfld.interpolated[i].input # "solidInterfaceDisplacement")
                       => tfld.interpolated[i].input = quantity
                 /\ tfld.interpolated[i].dir = "fluidToSolid"
                       => tfld.interpolated[i].output # quantity
           /\ quantity \in DOMAIN tfld.allocated

C36_Witness ==
    /\ tcfg.mode = "sizes" /\ tcfg.chtTransferMethod = "FFTB" /\ tfld.pc = "done"
    /\ tcfg.variant = "consistent"
    /\ tfld.relaxed = "solidInterfaceTemperature"
    /\ Len(tfld.interpolated) = 5

====
